---- MODULE Spec2Model ----
(***************************************************************************)
(* Model of the monitoring pipeline of cyber-monitor:                      *)
(*   - MonitorService (src/src/services/monitor-service.js): the cron      *)
(*     scheduler, monitorAllAccounts, monitorAccount and saveTweet;        *)
(*   - AccountManager.updateLastTweetId / getAllAccounts                    *)
(*     (src/src/services/account-manager.js);                              *)
(*   - IntegratedService.startMonitoringAndAnalysis (same file);           *)
(*   - the tweets and monitored_accounts tables (src/src/db/database.js);  *)
(*   - TwitterClient.getUserTweets (src/unnamed/part_000).                 *)
(* Every action is one run-to-completion segment of the JavaScript event   *)
(* loop: the code between two awaits of a handler.                         *)
(***************************************************************************)
EXTENDS Integers, Sequences, FiniteSets, TLC

\* ------------------------------------------------------------------ bounds
\* Tweet ids published by the platform are 10..MaxId: ids of one length, as
\* the platform's ids are, so that the string order of ids is their numeric
\* order.
MaxId == 11
\* Concurrent invocations of monitorAllAccounts that the model tracks.
MaxCycles == 2
\* Failures of external collaborators (database, platform) injected in a run.
MaxFaults == 1
\* Invocations of IntegratedService.startMonitoringAndAnalysis.
MaxCalls == 2
\* Invocations of AnalysisService.analyzeTweet.
MaxJobs == 2
\* A maxSummaryLength option short enough to cut the text of a tweet.
ShortLen == 1
\* Invocations of AccountManager.addAccount.
MaxAdds == 2
\* Invocations of AnalysisService.analyzeTweets.
MaxBatches == 3
\* Tweets in one analyzeTweets batch.
MaxBatchLen == 2
\* Notifications posted.
MaxPosted == 2

\* ------------------------------------------------------------- constants
\* last_tweet_id TEXT without default: NULL until the first cursor update.
NULL == 0
\* config.monitor.maxTweets default
maxTweets == 10
\* default of options.maxSummaryLength in analyzeContent
maxSummaryLength == 150

PostIds == 10..MaxId
Cycles == 1..MaxCycles
Calls == 1..MaxCalls
Jobs == 1..MaxJobs
Adds == 1..MaxAdds
Batches == 1..MaxBatches

\* monitored_accounts rows in the order of getAllAccounts (created_at DESC).
AccountOrder == <<"x", "y">>
AccountNames == {AccountOrder[k] : k \in 1..Len(AccountOrder)}

\* The platform account that authored a tweet id (user_id of the timeline).
Owner(id) == IF id % 3 = 0 THEN "y" ELSE "x"

\* ------------------------------------------------------- pure functions
RECURSIVE Str(_)
\* String(id): the decimal digits of an id, as the TEXT columns and the
\* twitter-api-v2 payload carry it.
Str(n) == IF n < 10 THEN <<n>> ELSE Append(Str(n \div 10), n % 10)

RECURSIVE LexGt(_, _)
\* JavaScript s > t on two strings: lexicographic by code unit.
LexGt(s, t) ==
  IF s = <<>> THEN FALSE
  ELSE IF t = <<>> THEN TRUE
  ELSE IF Head(s) # Head(t) THEN Head(s) > Head(t)
  ELSE LexGt(Tail(s), Tail(t))

\* tweet.id > latestTweetId on the two id strings.
StrGt(a, b) == LexGt(Str(a), Str(b))

RECURSIVE SortDesc(_)
\* A set of ids as the timeline lists it: newest (numerically largest) first.
SortDesc(S) ==
  IF S = {} THEN <<>>
  ELSE LET m == CHOOSE x \in S : \A y \in S : y <= x
       IN <<m>> \o SortDesc(S \ {m})

Take(s, n) == IF Len(s) <= n THEN s ELSE SubSeq(s, 1, n)

Range(s) == {s[k] : k \in 1..Len(s)}

VARIABLES
  isRunning,      \* MonitorService.isRunning
  cronJob,        \* MonitorService.cronJob: TRUE when a job is installed
  lastTrigger,    \* outcome of the last triggerMonitor call
  last_tweet_id,  \* monitored_accounts.last_tweet_id per username
  is_active,      \* monitored_accounts.is_active per username
  tweets,         \* rows of the tweets table (ids), in insertion order
  raw_data,       \* per row of the tweets table: the content stored with it
  timeline,       \* ids the platform has published so far
  cycle,          \* per invocation of monitorAllAccounts: its position
  report,         \* outcome and counts logged by the last finished cycle
  task,           \* per invocation and account: the monitorAccount run
  faults,         \* collaborator failures injected so far
  isMonitoring,   \* IntegratedService.isMonitoring
  call,           \* per invocation of startMonitoringAndAnalysis: its position
  analyses,       \* tweet ids with a persisted analysis result, in order
  notifications,  \* notifications handed to NotificationService, in order
  job,            \* per invocation of AnalysisService.analyzeTweet: its position
  Analysis,       \* rows of the Analysis table, in insertion order
  monitored_accounts, \* usernames of the monitored_accounts rows, newest first
  add,            \* per invocation of AccountManager.addAccount: its position
  isAnalyzing,    \* AnalysisService.isAnalyzing
  batch,          \* per invocation of AnalysisService.analyzeTweets: its position
  timers,         \* cron tasks started and not stopped
  lastLog,        \* the last message logged by start() or stop()
  ntfy            \* NotificationService: its configuration, the requests posted

vars == <<isRunning, cronJob, lastTrigger, last_tweet_id, is_active, tweets,
          raw_data, timeline, cycle, report, task, faults, isMonitoring, call,
          analyses, notifications, job, Analysis, monitored_accounts, add,
          isAnalyzing, batch, timers, lastLog, ntfy>>

schedVars == <<isRunning, cronJob, lastTrigger, timers, lastLog>>
dbVars == <<monitored_accounts, last_tweet_id, is_active, tweets, raw_data>>
isVars == <<isMonitoring, call, analyses, notifications>>
anVars == <<job, Analysis>>
opVars == <<add, isAnalyzing, batch, ntfy>>

\* The content of a tweet (text, metrics and raw_data of the payload) as
\* monitorAccount fetched it, and as a later payload of the same id has it.
Fetched == "as first fetched"
Refetched == "as fetched later"

\* A monitorAccount run that has not been started.
NoTask == [pc |-> "none", snap |-> NULL, tweets |-> <<>>, i |-> 0,
           latestTweetId |-> NULL, saved |-> <<>>, failedAt |-> {}]

IdleCycle == [pc |-> "idle", loaded |-> <<>>]

\* What the last finished monitorAllAccounts cycle logged.
NoReport == [outcome |-> "none", fulfilled |-> {}, rejected |-> {}]

\* An invocation of startMonitoringAndAnalysis that is not running: pc is
\* "idle" before the first call and then how the last call in the slot ended
\* ("skipped", "returned" or "threw"); err is the step of the current
\* account's try block that threw into its catch.
IdleCall == [pc |-> "idle", k |-> 0, accounts |-> <<>>, newTweets |-> <<>>,
             j |-> 0, err |-> "none"]

\* The result object that analyzeContent fills: has lists the keys set so far.
NoResult == [has |-> {}, sentiment |-> "", sentimentReason |-> "",
             keywords |-> <<>>, summary |-> <<>>]

\* An analysis record as analyzeTweet returns it.
NoAnalysis == [tweet_id |-> NULL, sentiment |-> "", keywords |-> <<>>,
               summary |-> <<>>, sentimentReason |-> ""]

\* An invocation of addAccount that has not been made.
IdleAdd == [pc |-> "idle", username |-> "", userInfo |-> "", err |-> ""]

\* An invocation of analyzeTweets that has not been made.
IdleBatch == [pc |-> "idle", tweets |-> <<>>, maxLength |-> 0, i |-> 0,
              jobs |-> <<>>, results |-> <<>>]

\* An invocation of analyzeTweet that has not been made. tweet is the id of
\* the tweet object passed in, NULL for an argument without id and text (the
\* string that startMonitoringAndAnalysis passes); calls counts the requests
\* sent to the analysis backend, down lists the sub-analyses whose request
\* the backend failed.
IdleJob == [pc |-> "idle", tweet |-> NULL, maxLength |-> 0, pending |-> {},
            calls |-> 0, down |-> {}, result |-> NoResult, ret |-> NoAnalysis]

\* The services as constructed, but for the configuration of the notifier.
Constructed ==
  /\ isRunning = FALSE
  /\ cronJob = FALSE
  /\ lastTrigger = "none"
  /\ timers = 0
  /\ lastLog = "none"
  /\ last_tweet_id = [a \in AccountNames |-> NULL]
  /\ is_active \in [AccountNames -> BOOLEAN]
  /\ tweets = <<>>
  /\ raw_data = <<>>
  /\ timeline = {}
  /\ cycle = [c \in Cycles |-> IdleCycle]
  /\ report = NoReport
  /\ task = [c \in Cycles |-> [a \in AccountNames |-> NoTask]]
  /\ faults = 0
  /\ isMonitoring = FALSE
  /\ call = [c \in Calls |-> IdleCall]
  /\ analyses = <<>>
  /\ notifications = <<>>
  /\ job = [j \in Jobs |-> IdleJob]
  /\ Analysis = <<>>
  /\ monitored_accounts = AccountOrder
  /\ add = [p \in Adds |-> IdleAdd]
  /\ isAnalyzing = FALSE
  /\ batch = [b \in Batches |-> IdleBatch]

\* NTFY_SERVER and NTFY_TOPIC are configured.
Init ==
  /\ Constructed
  /\ ntfy = [configured |-> TRUE, posted |-> <<>>]

\* ------------------------------------------------------------- platform
\* The platform publishes a new tweet; ids grow with time.
Publish(id) ==
  /\ id \in PostIds \ timeline
  /\ \A o \in timeline : o < id
  /\ timeline' = timeline \cup {id}
  /\ UNCHANGED <<opVars, schedVars, dbVars, cycle, report, task, faults, isVars, anVars>>

\* TwitterClient.getUserTweets(user_id, {max_results, since_id}): the newest
\* max_results tweets of the user, newest first; with since_id only tweets
\* whose id is numerically greater.
getUserTweets(a, since_id, max_results) ==
  Take(SortDesc({id \in timeline :
                   Owner(id) = a /\ (since_id = NULL \/ id > since_id)}),
       max_results)

\* ------------------------------------------------------------- database
\* saveTweet without its SELECT: every tweet goes on to the INSERT.
TweetExists_NoCheck(rows, id) == FALSE

\* SELECT id FROM tweets WHERE id = ? returned a row.
TweetExists(rows, id) == id \in Range(rows)

\* A tweets table whose id column is no key.
InsertAccepted_NoKey(rows, id) == TRUE

\* INSERT INTO tweets: rejected when the PRIMARY KEY id is already present.
InsertAccepted(rows, id) == id \notin Range(rows)

\* SELECT * FROM monitored_accounts WHERE is_active = 1 ORDER BY created_at DESC
\* The SELECT without its WHERE is_active = 1.
getAllAccounts_NoFilter ==
  monitored_accounts

getAllAccounts ==
  SelectSeq(monitored_accounts, LAMBDA a : is_active[a])

\* AccountManager.toggleAccountStatus(username, isActive): the UPDATE of
\* is_active has been applied.
toggleAccountStatus(a, isActive) ==
  /\ is_active' = [b \in AccountNames |->
                     IF b = a /\ b \in Range(monitored_accounts)
                     THEN isActive
                     ELSE is_active[b]]
  /\ UNCHANGED <<opVars, schedVars, monitored_accounts, last_tweet_id, tweets, raw_data, timeline, cycle, report, task,
                 faults, isVars, anVars>>

\* The usernames a caller can pass: the ones of the accounts, and "X", the
\* username of account "x" written in another case.
Usernames == AccountNames \cup {"X"}

\* TwitterClient.getUserByUsername(username) returns user.data of the platform,
\* whose username field is the name as the platform spells it.
getUserByUsername(u) == IF u = "X" THEN "x" ELSE u

\* SELECT * FROM monitored_accounts WHERE username = ?
getAccountByUsername(u) == u \in Range(monitored_accounts)

\* username TEXT UNIQUE NOT NULL, user_id TEXT UNIQUE: an INSERT is accepted
\* when no row has the username. Without the constraints it is always accepted.
UniqueAccepted_NoConstraint(u) == TRUE

UniqueAccepted(u) == u \notin Range(monitored_accounts)

\* AccountManager.removeAccount(username): DELETE FROM monitored_accounts
\* WHERE username = ? has been applied; the row takes its cursor with it.
removeAccount(u) ==
  /\ monitored_accounts' = SelectSeq(monitored_accounts, LAMBDA a : a # u)
  /\ last_tweet_id' = [b \in AccountNames |->
                         IF b = u /\ b \in Range(monitored_accounts)
                         THEN NULL
                         ELSE last_tweet_id[b]]
  /\ UNCHANGED <<opVars, schedVars, is_active, tweets, raw_data, timeline,
                 cycle, report, task, faults, isVars, anVars>>

\* AccountManager.addAccount(usernameOrData) is called: it runs up to its
\* await getAccountByUsername(username).
addAccount(p, u) ==
  /\ add[p].pc = "idle"
  /\ add' = [add EXCEPT ![p] = [IdleAdd EXCEPT !.pc = "check", !.username = u]]
  /\ UNCHANGED <<isAnalyzing, batch, ntfy, schedVars, dbVars, timeline, cycle,
                 report, task, faults, isVars, anVars>>

\* getAccountByUsername resolves: an existing row throws, otherwise
\* addAccount runs up to its await twitterClient.getUserByUsername(username).
AddCheck(p) ==
  /\ add[p].pc = "check"
  /\ add' = [add EXCEPT ![p] =
               IF getAccountByUsername(add[p].username)
               THEN [@ EXCEPT !.pc = "threw", !.err = "exists"]
               ELSE [@ EXCEPT !.pc = "lookup"]]
  /\ UNCHANGED <<isAnalyzing, batch, ntfy, schedVars, dbVars, timeline, cycle,
                 report, task, faults, isVars, anVars>>

\* getUserByUsername resolves: addAccount runs up to its await of the INSERT.
AddLookup(p) ==
  /\ add[p].pc = "lookup"
  /\ add' = [add EXCEPT ![p] =
               [@ EXCEPT !.pc = "insert",
                         !.userInfo = getUserByUsername(add[p].username)]]
  /\ UNCHANGED <<isAnalyzing, batch, ntfy, schedVars, dbVars, timeline, cycle,
                 report, task, faults, isVars, anVars>>

\* getUserByUsername rejects: the catch of addAccount logs and rethrows.
AddLookupFail(p) ==
  /\ add[p].pc = "lookup"
  /\ add' = [add EXCEPT ![p] = [@ EXCEPT !.pc = "threw", !.err = "lookup"]]
  /\ UNCHANGED <<isAnalyzing, batch, ntfy, schedVars, dbVars, timeline, cycle,
                 report, task, faults, isVars, anVars>>

\* The INSERT INTO monitored_accounts settles: accepted, the new row is
\* active, has no cursor and is the newest; rejected by a UNIQUE constraint,
\* addAccount logs and rethrows.
AddInsert(p) ==
  /\ add[p].pc = "insert"
  /\ LET u == add[p].userInfo
     IN IF UniqueAccepted(u)
        THEN /\ monitored_accounts' = <<u>> \o monitored_accounts
             /\ last_tweet_id' = [last_tweet_id EXCEPT ![u] = NULL]
             /\ is_active' = [is_active EXCEPT ![u] = TRUE]
             /\ add' = [add EXCEPT ![p] = [@ EXCEPT !.pc = "returned"]]
        ELSE /\ add' = [add EXCEPT ![p] = [@ EXCEPT !.pc = "threw", !.err = "insert"]]
             /\ UNCHANGED <<monitored_accounts, last_tweet_id, is_active>>
  /\ UNCHANGED <<isAnalyzing, batch, ntfy, schedVars, tweets, raw_data, timeline,
                 cycle, report, task, faults, isVars, anVars>>

\* ----------------------------------------------------- monitorAccount
\* if (!latestTweetId || tweet.id > latestTweetId) latestTweetId = tweet.id
NewLatest(latest, id) ==
  IF latest = NULL \/ StrGt(id, latest) THEN id ELSE latest

\* if (latestTweetId && latestTweetId !== account.last_tweet_id)
CursorChanged(latest, snap) == latest # NULL /\ latest # snap

\* The loop without its try/catch: a saveTweet that throws fails the run.
AfterSaveTweet_NoCatch(t, outcome) ==
  LET id == t.tweets[t.i]
      latest == IF outcome = "saved" THEN NewLatest(t.latestTweetId, id)
                ELSE t.latestTweetId
      t1 == [t EXCEPT !.latestTweetId = latest,
                      !.saved = IF outcome = "saved" THEN Append(@, id) ELSE @,
                      !.i = @ + 1]
  IN IF outcome = "threw" THEN [t EXCEPT !.pc = "rejected"]
     ELSE IF t1.i <= Len(t.tweets) THEN [t1 EXCEPT !.pc = "query"]
     ELSE IF CursorChanged(latest, t.snap) THEN [t1 EXCEPT !.pc = "update"]
     ELSE [t1 EXCEPT !.pc = "fulfilled"]

\* The loop taking every fetched tweet, saved or not, as a cursor candidate.
AfterSaveTweet_AnyOutcome(t, outcome) ==
  LET id == t.tweets[t.i]
      latest == NewLatest(t.latestTweetId, id)
      t1 == [t EXCEPT !.latestTweetId = latest,
                      !.saved = IF outcome = "saved" THEN Append(@, id) ELSE @,
                      !.failedAt = IF outcome = "threw" THEN @ \cup {t.i} ELSE @,
                      !.i = @ + 1]
  IN IF t1.i <= Len(t.tweets) THEN [t1 EXCEPT !.pc = "query"]
     ELSE IF CursorChanged(latest, t.snap) THEN [t1 EXCEPT !.pc = "update"]
     ELSE [t1 EXCEPT !.pc = "fulfilled"]

\* What the for-loop does with the outcome of one saveTweet call:
\* outcome is "saved" (true), "skipped" (false) or "threw" (caught, logged).
AfterSaveTweet(t, outcome) ==
  LET id == t.tweets[t.i]
      latest == IF outcome = "saved" THEN NewLatest(t.latestTweetId, id)
                ELSE t.latestTweetId
      t1 == [t EXCEPT !.latestTweetId = latest,
                      !.saved = IF outcome = "saved" THEN Append(@, id) ELSE @,
                      !.failedAt = IF outcome = "threw" THEN @ \cup {t.i} ELSE @,
                      !.i = @ + 1]
  IN IF t1.i <= Len(t.tweets) THEN [t1 EXCEPT !.pc = "query"]
     ELSE IF CursorChanged(latest, t.snap) THEN [t1 EXCEPT !.pc = "update"]
     ELSE [t1 EXCEPT !.pc = "fulfilled"]

Settled(t) == t.pc \in {"none", "fulfilled", "rejected"}

\* A settled promise carries nothing of the run but its status.
Final(t) == IF t.pc \in {"fulfilled", "rejected"} THEN [NoTask EXCEPT !.pc = t.pc]
            ELSE t

\* The continuation of Promise.allSettled in monitorAllAccounts: it runs as
\* soon as the last monitorAccount promise of the cycle has settled and counts
\* the fulfilled and the rejected promises.
\* Promise.all in place of Promise.allSettled: the first rejection ends the wait.
AllSettled_FailFast(ts) ==
  \/ \A a \in AccountNames : Settled(ts[a])
  \/ \E a \in AccountNames : ts[a].pc = "rejected"

AllSettled(ts) == \A a \in AccountNames : Settled(ts[a])

\* results of Promise.allSettled, by status.
CountResults(ts) ==
  [outcome |-> "done",
   fulfilled |-> {a \in AccountNames : ts[a].pc = "fulfilled"},
   rejected |-> {a \in AccountNames : ts[a].pc = "rejected"}]

successCount == Cardinality(report.fulfilled)
errorCount == Cardinality(report.rejected)

\* What monitorAllAccounts hands to its caller: the counts go to the log
\* only, the function has no return statement with a value, so its promise
\* resolves with undefined.
monitorAllAccountsReturn(r) ==
  [defined |-> FALSE, successCount |-> 0, errorCount |-> 0]

\* One step of the monitorAccount run of account a in cycle c ends with the
\* run in state t; the promises of a finished cycle are dropped.
TaskStep(c, a, t) ==
  LET ts == [task[c] EXCEPT ![a] = Final(t)]
  IN IF AllSettled(ts)
     THEN /\ task' = [task EXCEPT ![c] = [b \in AccountNames |-> NoTask]]
          /\ cycle' = [cycle EXCEPT ![c] = IdleCycle]
          /\ report' = CountResults(ts)
     ELSE /\ task' = [task EXCEPT ![c] = ts]
          /\ UNCHANGED <<cycle, report>>

Fault == /\ faults < MaxFaults
         /\ faults' = faults + 1

\* monitorAllAccounts() is called: it runs up to await getAllAccounts().
FreeCycle == CHOOSE c \in Cycles :
               /\ cycle[c].pc = "idle"
               /\ \A d \in Cycles : cycle[d].pc = "idle" => c <= d

monitorAllAccounts ==
  /\ \E c \in Cycles : cycle[c].pc = "idle"
  /\ cycle' = [cycle EXCEPT ![FreeCycle] = [IdleCycle EXCEPT !.pc = "load"]]
  /\ UNCHANGED <<task, report>>

\* getAllAccounts() resolves: an empty list ends the cycle, otherwise every
\* monitorAccount(account) runs up to its await getUserTweets(...).
LoadAccounts(c) ==
  /\ cycle[c].pc = "load"
  /\ LET accounts == getAllAccounts
     IN IF Len(accounts) = 0
        THEN /\ cycle' = [cycle EXCEPT ![c] = IdleCycle]
             /\ report' = [NoReport EXCEPT !.outcome = "empty"]
             /\ UNCHANGED task
        ELSE /\ cycle' = [cycle EXCEPT ![c] = [pc |-> "run", loaded |-> accounts]]
             /\ UNCHANGED report
             /\ task' = [task EXCEPT ![c] =
                  [a \in AccountNames |->
                     IF a \in Range(accounts)
                     THEN [NoTask EXCEPT !.pc = "fetch", !.snap = last_tweet_id[a]]
                     ELSE NoTask]]
  /\ UNCHANGED <<opVars, schedVars, dbVars, timeline, faults, isVars, anVars>>

\* getAllAccounts() rejects: the catch of monitorAllAccounts logs it.
LoadAccountsFail(c) ==
  /\ cycle[c].pc = "load"
  /\ Fault
  /\ cycle' = [cycle EXCEPT ![c] = IdleCycle]
  /\ report' = [NoReport EXCEPT !.outcome = "error"]
  /\ UNCHANGED <<opVars, schedVars, dbVars, timeline, task, isVars, anVars>>

\* getUserTweets resolves in monitorAccount.
FetchTweets(c, a) ==
  /\ task[c][a].pc = "fetch"
  /\ LET t == task[c][a]
         got == getUserTweets(a, t.snap, maxTweets)
     IN IF Len(got) = 0
        THEN TaskStep(c, a, [t EXCEPT !.pc = "fulfilled"])
        ELSE TaskStep(c, a, [t EXCEPT !.pc = "query", !.tweets = got, !.i = 1,
                                      !.latestTweetId = t.snap])
  /\ UNCHANGED <<opVars, schedVars, dbVars, timeline, faults, isVars, anVars>>

\* getUserTweets rejects: monitorAccount logs and rethrows.
FetchTweetsFail(c, a) ==
  /\ task[c][a].pc = "fetch"
  /\ Fault
  /\ TaskStep(c, a, [task[c][a] EXCEPT !.pc = "rejected"])
  /\ UNCHANGED <<opVars, schedVars, dbVars, timeline, isVars, anVars>>

\* saveTweet: the SELECT resolves; an existing id returns false, otherwise
\* saveTweet goes on to await the INSERT.
SaveTweetQuery(c, a) ==
  /\ task[c][a].pc = "query"
  /\ LET t == task[c][a]
     IN IF TweetExists(tweets, t.tweets[t.i])
        THEN TaskStep(c, a, AfterSaveTweet(t, "skipped"))
        ELSE TaskStep(c, a, [t EXCEPT !.pc = "insert"])
  /\ UNCHANGED <<opVars, schedVars, dbVars, timeline, faults, isVars, anVars>>

\* saveTweet: the SELECT rejects; saveTweet rethrows, the loop catches.
SaveTweetQueryFail(c, a) ==
  /\ task[c][a].pc = "query"
  /\ Fault
  /\ TaskStep(c, a, AfterSaveTweet(task[c][a], "threw"))
  /\ UNCHANGED <<opVars, schedVars, dbVars, timeline, isVars, anVars>>

\* saveTweet: the INSERT resolves and saveTweet returns true; a primary key
\* conflict rejects it and the loop catches the error.
SaveTweetInsert(c, a) ==
  /\ task[c][a].pc = "insert"
  /\ LET t == task[c][a]
         id == t.tweets[t.i]
     IN IF InsertAccepted(tweets, id)
        THEN /\ tweets' = Append(tweets, id)
             /\ raw_data' = Append(raw_data, Fetched)
             /\ TaskStep(c, a, AfterSaveTweet(t, "saved"))
        ELSE /\ UNCHANGED <<tweets, raw_data>>
             /\ TaskStep(c, a, AfterSaveTweet(t, "threw"))
  /\ UNCHANGED <<opVars, schedVars, monitored_accounts, last_tweet_id, is_active, timeline, faults, isVars, anVars>>

\* saveTweet: the INSERT rejects for a storage fault.
SaveTweetInsertFail(c, a) ==
  /\ task[c][a].pc = "insert"
  /\ Fault
  /\ TaskStep(c, a, AfterSaveTweet(task[c][a], "threw"))
  /\ UNCHANGED <<opVars, schedVars, dbVars, timeline, isVars, anVars>>

\* An UPDATE of last_tweet_id without its WHERE username = ? clause.
updateLastTweetId_NoWhere(c, a) ==
  /\ task[c][a].pc = "update"
  /\ last_tweet_id' = [b \in AccountNames |-> task[c][a].latestTweetId]
  /\ TaskStep(c, a, [task[c][a] EXCEPT !.pc = "fulfilled"])
  /\ UNCHANGED <<opVars, schedVars, monitored_accounts, is_active, tweets, raw_data, timeline, faults, isVars, anVars>>

\* AccountManager.updateLastTweetId resolves: the UPDATE has been applied.
updateLastTweetId(c, a) ==
  /\ task[c][a].pc = "update"
  /\ last_tweet_id' = [b \in AccountNames |->
                         IF b = a /\ b \in Range(monitored_accounts)
                         THEN task[c][a].latestTweetId
                         ELSE last_tweet_id[b]]
  /\ TaskStep(c, a, [task[c][a] EXCEPT !.pc = "fulfilled"])
  /\ UNCHANGED <<opVars, schedVars, monitored_accounts, is_active, tweets, raw_data, timeline, faults, isVars, anVars>>

\* updateLastTweetId rejects and monitorAccount does not rethrow.
updateLastTweetIdFail_Swallowed(c, a) ==
  /\ task[c][a].pc = "update"
  /\ Fault
  /\ TaskStep(c, a, [task[c][a] EXCEPT !.pc = "fulfilled"])
  /\ UNCHANGED <<opVars, schedVars, dbVars, timeline, isVars, anVars>>

\* updateLastTweetId rejects: monitorAccount logs and rethrows.
updateLastTweetIdFail(c, a) ==
  /\ task[c][a].pc = "update"
  /\ Fault
  /\ TaskStep(c, a, [task[c][a] EXCEPT !.pc = "rejected"])
  /\ UNCHANGED <<opVars, schedVars, dbVars, timeline, isVars, anVars>>

\* ---------------------------------------------------------- scheduler
\* start() that leaves the first cycle to the first tick of the cron job.
start_NoFire ==
  /\ ~isRunning
  /\ cronJob' = TRUE
  /\ timers' = timers + 1
  /\ isRunning' = TRUE
  /\ lastLog' = "started"
  /\ UNCHANGED <<opVars, lastTrigger, dbVars, timeline, cycle, report, task, faults,
                 isVars, anVars>>

\* MonitorService.start(): install the cron job and fire one cycle at once.
start ==
  /\ ~isRunning
  /\ cronJob' = TRUE
  /\ timers' = timers + 1
  /\ isRunning' = TRUE
  /\ lastLog' = "started"
  /\ monitorAllAccounts
  /\ UNCHANGED <<opVars, lastTrigger, dbVars, timeline, faults, isVars, anVars>>

\* start() without the return under its isRunning test.
startAgain_Reinstall ==
  /\ isRunning
  /\ cronJob' = TRUE
  /\ timers' = timers + 1
  /\ lastLog' = "already running"
  /\ monitorAllAccounts
  /\ UNCHANGED <<opVars, isRunning, lastTrigger, dbVars, timeline, faults,
                 isVars, anVars>>

\* start() while running only logs a warning.
startAgain ==
  /\ isRunning
  /\ lastLog' = "already running"
  /\ UNCHANGED <<opVars, isRunning, cronJob, lastTrigger, timers, dbVars,
                 timeline, cycle, report, task, faults, isVars, anVars>>

\* stop() that also drops the cycles in flight.
stop_Cancel ==
  /\ cronJob' = FALSE
  /\ timers' = IF cronJob THEN timers - 1 ELSE timers
  /\ isRunning' = FALSE
  /\ lastLog' = "stopped"
  /\ cycle' = [c \in Cycles |-> IdleCycle]
  /\ task' = [c \in Cycles |-> [a \in AccountNames |-> NoTask]]
  /\ UNCHANGED <<opVars, lastTrigger, dbVars, timeline, report, faults, isVars, anVars>>

\* MonitorService.stop(): the installed job, if there is one, is stopped and
\* dropped; the message is logged in either case.
stop ==
  /\ cronJob' = FALSE
  /\ timers' = IF cronJob THEN timers - 1 ELSE timers
  /\ isRunning' = FALSE
  /\ lastLog' = "stopped"
  /\ UNCHANGED <<opVars, lastTrigger, dbVars, timeline, cycle, report, task, faults, isVars, anVars>>

\* The cron job fires: its callback awaits monitorAllAccounts().
CronTick ==
  /\ timers > 0
  /\ monitorAllAccounts
  /\ UNCHANGED <<opVars, schedVars, dbVars, timeline, faults, isVars, anVars>>

\* triggerMonitor() without the isRunning test.
triggerMonitor_NoCheck ==
  /\ monitorAllAccounts
  /\ lastTrigger' = "ran"
  /\ UNCHANGED <<opVars, isRunning, cronJob, timers, lastLog, dbVars, timeline, faults, isVars, anVars>>

\* MonitorService.triggerMonitor()
triggerMonitor ==
  IF isRunning
  THEN /\ monitorAllAccounts
       /\ lastTrigger' = "ran"
       /\ UNCHANGED <<opVars, isRunning, cronJob, timers, lastLog, dbVars, timeline, faults, isVars, anVars>>
  ELSE /\ lastTrigger # "threw"
       /\ lastTrigger' = "threw"
       /\ UNCHANGED <<opVars, isRunning, cronJob, timers, lastLog, dbVars, timeline, cycle, report, task, faults, isVars, anVars>>

\* MonitorService.getStatus(). nextRun is cronJob.nextDate() when a job is
\* installed and null otherwise; the job is the task object returned by
\* node-cron's schedule(), and hasNextDate tells whether that object has a
\* nextDate method: without one the call is a TypeError and getStatus throws.
getStatus(hasNextDate) ==
  IF cronJob /\ ~hasNextDate
  THEN [threw |-> TRUE, isRunning |-> isRunning, nextRun |-> "none"]
  ELSE [threw |-> FALSE, isRunning |-> isRunning,
        nextRun |-> IF cronJob THEN "date" ELSE "null"]

Next ==
  \/ \E id \in PostIds : Publish(id)
  \/ start
  \/ startAgain
  \/ stop
  \/ CronTick
  \/ triggerMonitor
  \/ \E c \in Cycles : LoadAccounts(c)
  \/ \E c \in Cycles : LoadAccountsFail(c)
  \/ \E c \in Cycles, a \in AccountNames : FetchTweets(c, a)
  \/ \E c \in Cycles, a \in AccountNames : FetchTweetsFail(c, a)
  \/ \E c \in Cycles, a \in AccountNames : SaveTweetQuery(c, a)
  \/ \E c \in Cycles, a \in AccountNames : SaveTweetQueryFail(c, a)
  \/ \E c \in Cycles, a \in AccountNames : SaveTweetInsert(c, a)
  \/ \E c \in Cycles, a \in AccountNames : SaveTweetInsertFail(c, a)
  \/ \E c \in Cycles, a \in AccountNames : updateLastTweetId(c, a)
  \/ \E c \in Cycles, a \in AccountNames : updateLastTweetIdFail(c, a)

Spec == Init /\ [][Next]_vars

\* Database.saveTweet(tweetData): INSERT OR REPLACE INTO tweets. A row with
\* the same PRIMARY KEY id is deleted and the new row is inserted in its
\* place, with the content of tweetData; otherwise the row is added.
saveTweet(id, data) ==
  /\ id \in timeline
  /\ LET rows == [k \in 1..Len(tweets) |-> <<tweets[k], raw_data[k]>>]
         kept == SelectSeq(rows, LAMBDA r : r[1] # id)
     IN /\ tweets' = Append([k \in 1..Len(kept) |-> kept[k][1]], id)
        /\ raw_data' = Append([k \in 1..Len(kept) |-> kept[k][2]], data)
  /\ UNCHANGED <<opVars, schedVars, monitored_accounts, last_tweet_id, is_active, timeline, cycle, report,
                 task, faults, isVars, anVars>>

\* The tweets table under both of its writers: the saveTweet of
\* MonitorService inside the monitoring cycles, and Database.saveTweet.
NextStore ==
  \/ \E id \in PostIds : Publish(id)
  \/ start
  \/ CronTick
  \/ \E c \in Cycles : LoadAccounts(c)
  \/ \E c \in Cycles, a \in AccountNames : FetchTweets(c, a)
  \/ \E c \in Cycles, a \in AccountNames : SaveTweetQuery(c, a)
  \/ \E c \in Cycles, a \in AccountNames : SaveTweetInsert(c, a)
  \/ \E c \in Cycles, a \in AccountNames : updateLastTweetId(c, a)
  \/ \E id \in PostIds, data \in {Fetched, Refetched} : saveTweet(id, data)

SpecStore == Init /\ [][NextStore]_vars

\* The monitoring cycles while accounts are deactivated, reactivated and
\* removed. Every account starts present and active.
InitAccounts ==
  /\ Init
  /\ \A a \in AccountNames : is_active[a]

NextAccounts ==
  \/ \E id \in PostIds : Publish(id)
  \/ start
  \/ CronTick
  \/ \E c \in Cycles : LoadAccounts(c)
  \/ \E c \in Cycles, a \in AccountNames : FetchTweets(c, a)
  \/ \E c \in Cycles, a \in AccountNames : SaveTweetQuery(c, a)
  \/ \E c \in Cycles, a \in AccountNames : SaveTweetInsert(c, a)
  \/ \E c \in Cycles, a \in AccountNames : updateLastTweetId(c, a)
  \/ \E a \in AccountNames, isActive \in BOOLEAN : toggleAccountStatus(a, isActive)
  \/ \E u \in Usernames : removeAccount(u)

SpecAccounts == InitAccounts /\ [][NextAccounts]_vars

\* ------------------------------------------------------ DeepseekClient
\* Strings are sequences of one-character strings.
Letter(k) == <<"a", "b", "c", "d">>[((k - 1) % 4) + 1]

\* tweet.text of the tweet with the given id: texts of different lengths.
TextOf(id) == [k \in 1..(id - 9) |-> Letter(k)]

\* The text that analyzeTweet reads from its argument: tweet.text is
\* undefined when the argument carries no text property.
TweetText(tw) == IF tw = NULL THEN [defined |-> FALSE, chars |-> <<>>]
                 ELSE [defined |-> TRUE, chars |-> TextOf(tw)]

\* '...' appended by the summary fallback
Marker == <<".", ".", ".">>

\* reason of analyzeSentiment when the call or the parse failed
\* ('解析结果失败，默认为中性')
ParseFailed == "parse failed, neutral by default"
\* reason of analyzeSentiment when the reply carries none ('无法分析')
CannotAnalyze == "cannot analyze"
\* sentimentReason set by the catch handler of analyzeContent ('分析失败')
AnalysisFailed == "analysis failed"

\* a || b on strings: the empty string is falsy.
OrElse(a, b) == IF a = "" THEN b ELSE a

\* text.substring(0, n)
Substring(s, n) == IF Len(s) <= n THEN s ELSE SubSeq(s, 1, n)

RECURSIVE TrimLeft(_)
TrimLeft(s) == IF s # <<>> /\ Head(s) = " " THEN TrimLeft(Tail(s)) ELSE s

RECURSIVE TrimRight(_)
TrimRight(s) == IF s # <<>> /\ s[Len(s)] = " "
                THEN TrimRight(SubSeq(s, 1, Len(s) - 1)) ELSE s

\* content.trim()
Trim(s) == TrimRight(TrimLeft(s))

\* Replies of the backend to the three requests; ok = FALSE is a failed call
\* (_callAPI rethrows) or a reply that cannot be read.
SentimentDown == [ok |-> FALSE, sentiment |-> "", reason |-> ""]
SentimentFull == [ok |-> TRUE, sentiment |-> "positive", reason |-> "because"]
SentimentBare == [ok |-> TRUE, sentiment |-> "", reason |-> ""]
SentimentReplies == {SentimentDown, SentimentFull, SentimentBare}

KeywordsDown == [ok |-> FALSE, isArray |-> FALSE, keywords |-> <<>>]
KeywordsList == [ok |-> TRUE, isArray |-> TRUE, keywords |-> << <<"k">>, <<"m">> >>]
KeywordsOther == [ok |-> TRUE, isArray |-> FALSE, keywords |-> <<>>]
KeywordReplies == {KeywordsDown, KeywordsList, KeywordsOther}

SummaryDown == [ok |-> FALSE, content |-> <<>>]
SummaryText == [ok |-> TRUE, content |-> <<" ", "s", " ">>]
SummaryReplies == {SummaryDown, SummaryText}

Fulfilled(v) == [status |-> "fulfilled", value |-> v]
Rejected == [status |-> "rejected", value |-> <<>>]

\* analyzeSentiment(text): its own try/catch turns every failure into the
\* neutral reply, so the promise never rejects.
analyzeSentiment(text, reply) ==
  IF reply.ok
  THEN Fulfilled([sentiment |-> OrElse(reply.sentiment, "neutral"),
                  reason |-> OrElse(reply.reason, CannotAnalyze)])
  ELSE Fulfilled([sentiment |-> "neutral", reason |-> ParseFailed])

\* extractKeywords(text, maxKeywords)
extractKeywords(text, reply) ==
  IF reply.ok
  THEN Fulfilled(IF reply.isArray THEN reply.keywords ELSE <<>>)
  ELSE Fulfilled(<<>>)

\* generateSummary(text, maxLength): the fallback reads text.substring, which
\* throws inside the catch block when text is undefined.
generateSummary(text, maxLength, reply) ==
  IF reply.ok THEN Fulfilled(Trim(reply.content))
  ELSE IF text.defined THEN Fulfilled(Substring(text.chars, maxLength) \o Marker)
  ELSE Rejected

\* The then/catch pair that analyzeContent attaches to analyzeSentiment.
OnSentiment(result, p) ==
  IF p.status = "fulfilled"
  THEN [result EXCEPT !.sentiment = p.value.sentiment,
                      !.sentimentReason = p.value.reason,
                      !.has = @ \cup {"sentiment", "sentimentReason"}]
  ELSE [result EXCEPT !.sentiment = "neutral",
                      !.sentimentReason = AnalysisFailed,
                      !.has = @ \cup {"sentiment", "sentimentReason"}]

\* The then/catch pair attached to extractKeywords.
OnKeywords(result, p) ==
  IF p.status = "fulfilled"
  THEN [result EXCEPT !.keywords = p.value, !.has = @ \cup {"keywords"}]
  ELSE [result EXCEPT !.keywords = <<>>, !.has = @ \cup {"keywords"}]

\* The then/catch pair attached to generateSummary; the catch handler reads
\* text.substring too and sets nothing when that throws.
OnSummary(result, text, maxLength, p) ==
  IF p.status = "fulfilled"
  THEN [result EXCEPT !.summary = p.value, !.has = @ \cup {"summary"}]
  ELSE IF text.defined
  THEN [result EXCEPT !.summary = Substring(text.chars, maxLength) \o Marker,
                      !.has = @ \cup {"summary"}]
  ELSE result

\* analyzeContent(text, {maxSummaryLength}): the result object once the three
\* tasks have settled with the given replies.
analyzeContent(text, maxLength, rs, rk, rm) ==
  OnSummary(OnKeywords(OnSentiment(NoResult, analyzeSentiment(text, rs)),
                       extractKeywords(text, rk)),
            text, maxLength, generateSummary(text, maxLength, rm))

\* ----------------------------------------------------- AnalysisService
RECURSIVE Join(_)
\* keywords.join(',')
Join(kws) ==
  IF kws = <<>> THEN <<>>
  ELSE IF Len(kws) = 1 THEN kws[1]
  ELSE kws[1] \o <<",">> \o Join(Tail(kws))

RECURSIVE Split(_)
\* str.split(',')
Split(str) ==
  IF \A k \in 1..Len(str) : str[k] # "," THEN <<str>>
  ELSE LET i == CHOOSE k \in 1..Len(str) :
                  str[k] = "," /\ \A m \in 1..(k - 1) : str[m] # ","
       IN <<SubSeq(str, 1, i - 1)>> \o Split(SubSeq(str, i + 1, Len(str)))

\* The row that saveAnalysis inserts into Analysis.
AnalysisRow(tweetId, result) ==
  [tweet_id |-> tweetId,
   sentiment |-> IF "sentiment" \in result.has
                 THEN OrElse(result.sentiment, "neutral") ELSE "neutral",
   keywords |-> IF "keywords" \in result.has THEN Join(result.keywords) ELSE <<>>,
   summary |-> IF "summary" \in result.has THEN result.summary ELSE <<>>]

\* The record that saveAnalysis returns after the INSERT.
SavedAnalysis(tweetId, result) ==
  [tweet_id |-> tweetId,
   sentiment |-> IF "sentiment" \in result.has
                 THEN OrElse(result.sentiment, "neutral") ELSE "neutral",
   keywords |-> IF "keywords" \in result.has THEN result.keywords ELSE <<>>,
   summary |-> IF "summary" \in result.has THEN result.summary ELSE <<>>,
   sentimentReason |-> IF "sentimentReason" \in result.has
                       THEN result.sentimentReason ELSE ""]

\* database.get('SELECT * FROM Analysis WHERE tweet_id = ?'): the positions of
\* the matching rows; an undefined id is bound as NULL and matches no row.
MatchingRows(rows, tweetId) ==
  {k \in 1..Len(rows) : tweetId # NULL /\ rows[k].tweet_id = tweetId}

\* getAnalysis that never finds a row.
getAnalysis_NotFound(rows, tweetId) ==
  [exists |-> FALSE, analysis |-> NoAnalysis]

\* getAnalysis(tweetId): the first matching row with its keywords split, or
\* nothing.
getAnalysis(rows, tweetId) ==
  LET m == MatchingRows(rows, tweetId)
  IN IF m = {} THEN [exists |-> FALSE, analysis |-> NoAnalysis]
     ELSE LET row == rows[CHOOSE k \in m : \A o \in m : k <= o]
          IN [exists |-> TRUE,
              analysis |-> [tweet_id |-> row.tweet_id,
                            sentiment |-> row.sentiment,
                            keywords |-> IF row.keywords = <<>> THEN <<>>
                                         ELSE Split(row.keywords),
                            summary |-> row.summary,
                            sentimentReason |-> ""]]

\* INSERT INTO Analysis: the analysis table of createTables has an
\* AUTOINCREMENT key and no uniqueness on tweet_id, so no row is refused.
AnalysisInsertAccepted(rows, tweetId) == TRUE

\* ------------------------------------------------- IntegratedService
CallEnded(cl) == cl.pc \in {"idle", "skipped", "returned", "threw"}

RECURSIVE MaxOf(_, _)
\* The greatest id of a sequence under the order of NewLatest, from a start.
MaxOf(latest, ids) ==
  IF ids = <<>> THEN latest
  ELSE MaxOf(NewLatest(latest, Head(ids)), Tail(ids))

\* startMonitoringAndAnalysis with the isMonitoring test left out.
startMonitoringAndAnalysis_NoGuard(c) ==
  /\ CallEnded(call[c])
  /\ isMonitoring' = TRUE
  /\ call' = [call EXCEPT ![c] = [IdleCall EXCEPT !.pc = "load"]]
  /\ UNCHANGED <<opVars, schedVars, dbVars, timeline, cycle, report, task, faults,
                 analyses, notifications, anVars>>

\* startMonitoringAndAnalysis() is called: with the guard set it returns at
\* once, otherwise it sets the guard and awaits db.getAllTwitterAccounts().
startMonitoringAndAnalysis(c) ==
  /\ CallEnded(call[c])
  /\ IF isMonitoring
     THEN /\ call' = [call EXCEPT ![c] = [IdleCall EXCEPT !.pc = "skipped"]]
          /\ UNCHANGED isMonitoring
     ELSE /\ isMonitoring' = TRUE
          /\ call' = [call EXCEPT ![c] = [IdleCall EXCEPT !.pc = "load"]]
  /\ UNCHANGED <<opVars, schedVars, dbVars, timeline, cycle, report, task, faults,
                 analyses, notifications, anVars>>

\* The head of the for-loop over accounts after account k is finished:
\* the next account's getAndStoreLatestTweets is awaited, or the guard is
\* cleared and the call returns.
NextAccount(c, cl) ==
  IF cl.k < Len(cl.accounts)
  THEN /\ call' = [call EXCEPT ![c] = [cl EXCEPT !.pc = "fetch", !.k = @ + 1,
                                                  !.newTweets = <<>>, !.j = 0,
                                                  !.err = "none"]]
       /\ UNCHANGED isMonitoring
  ELSE /\ call' = [call EXCEPT ![c] = [IdleCall EXCEPT !.pc = "returned"]]
       /\ isMonitoring' = FALSE

\* The head of the for-loop over newTweets after tweet j is finished.
NextTweet(c, cl) ==
  IF cl.j < Len(cl.newTweets)
  THEN /\ call' = [call EXCEPT ![c] = [cl EXCEPT !.pc = "notifyNew", !.j = @ + 1]]
       /\ UNCHANGED isMonitoring
  ELSE NextAccount(c, cl)

\* db.getAllTwitterAccounts() resolves.
ISLoadAccounts(c) ==
  /\ call[c].pc = "load"
  /\ LET accounts == getAllAccounts
     IN IF Len(accounts) = 0
        THEN /\ isMonitoring' = FALSE
             /\ call' = [call EXCEPT ![c] = [IdleCall EXCEPT !.pc = "returned"]]
        ELSE NextAccount(c, [call[c] EXCEPT !.accounts = accounts, !.k = 0])
  /\ UNCHANGED <<opVars, schedVars, dbVars, timeline, cycle, report, task, faults,
                 analyses, notifications, anVars>>

\* db.getAllTwitterAccounts() rejects: no handler, the call ends by throwing.
ISLoadAccountsFail(c) ==
  /\ call[c].pc = "load"
  /\ Fault
  /\ call' = [call EXCEPT ![c] = [IdleCall EXCEPT !.pc = "threw"]]
  /\ UNCHANGED <<opVars, schedVars, dbVars, timeline, cycle, report, task, isMonitoring,
                 analyses, notifications, anVars>>

\* monitorService.getAndStoreLatestTweets resolves with the new tweets of the
\* account: fetched since the cursor, those not yet stored are persisted and
\* the cursor moves to the greatest persisted id if that exceeds it.
getAndStoreLatestTweets(c) ==
  /\ call[c].pc = "fetch"
  /\ LET cl == call[c]
         a == cl.accounts[cl.k]
         got == getUserTweets(a, last_tweet_id[a], maxTweets)
         new == SelectSeq(got, LAMBDA id : ~TweetExists(tweets, id))
         latest == MaxOf(last_tweet_id[a], new)
     IN /\ tweets' = tweets \o new
        /\ raw_data' = raw_data \o [k \in 1..Len(new) |-> Fetched]
        /\ last_tweet_id' = [last_tweet_id EXCEPT ![a] = latest]
        /\ NextTweet(c, [cl EXCEPT !.newTweets = new, !.j = 0])
  /\ UNCHANGED <<opVars, schedVars, monitored_accounts, is_active, timeline, cycle, report, task, faults,
                 analyses, notifications, anVars>>

\* Any awaited step of the account's try block rejects: the catch logs it and
\* awaits sendSystemNotification('error', ...).
ISStepFail(c) ==
  /\ call[c].pc \in {"fetch", "analyze", "persist"}
  /\ Fault
  /\ call' = [call EXCEPT ![c] = [@ EXCEPT !.pc = "sysNotify", !.err = call[c].pc]]
  /\ UNCHANGED <<opVars, schedVars, dbVars, timeline, cycle, report, task, isMonitoring,
                 analyses, notifications, anVars>>

\* sendNotification without its try/catch: a failed POST throws into the
\* catch of the account loop, or out of the call when it was the system
\* notification of that catch.
ISNotify_Raises(c, delivered) ==
  /\ call[c].pc \in {"notifyNew", "notifyResult", "sysNotify"}
  /\ LET cl == call[c]
         kind == cl.pc
         about == IF kind = "sysNotify" THEN NULL ELSE cl.newTweets[cl.j]
     IN IF delivered
        THEN /\ notifications' = Append(notifications, <<kind, about>>)
             /\ UNCHANGED faults
             /\ CASE kind = "notifyNew" ->
                       /\ call' = [call EXCEPT ![c] = [cl EXCEPT !.pc = "analyze"]]
                       /\ UNCHANGED isMonitoring
                  [] kind = "notifyResult" -> NextTweet(c, cl)
                  [] kind = "sysNotify" -> NextAccount(c, cl)
        ELSE /\ Fault
             /\ UNCHANGED <<notifications, isMonitoring>>
             /\ call' = [call EXCEPT ![c] =
                          IF kind = "sysNotify" THEN [IdleCall EXCEPT !.pc = "threw"]
                          ELSE [cl EXCEPT !.pc = "sysNotify", !.err = kind]]
  /\ UNCHANGED <<opVars, schedVars, dbVars, timeline, cycle, report, task, analyses, anVars>>

\* sendNotification: the POST is delivered, or fails and is only logged;
\* either way the caller goes on.
ISNotify(c, delivered) ==
  /\ call[c].pc \in {"notifyNew", "notifyResult", "sysNotify"}
  /\ LET cl == call[c]
         kind == cl.pc
         about == IF kind = "sysNotify" THEN NULL ELSE cl.newTweets[cl.j]
     IN /\ IF delivered
           THEN /\ notifications' = Append(notifications, <<kind, about>>)
                /\ UNCHANGED faults
           ELSE /\ Fault
                /\ UNCHANGED notifications
        /\ CASE kind = "notifyNew" ->
                  /\ call' = [call EXCEPT ![c] = [cl EXCEPT !.pc = "analyze"]]
                  /\ UNCHANGED isMonitoring
             [] kind = "notifyResult" -> NextTweet(c, cl)
             [] kind = "sysNotify" -> NextAccount(c, cl)
  /\ UNCHANGED <<opVars, schedVars, dbVars, timeline, cycle, report, task, analyses, anVars>>

\* A loop that sends the result notification right after the analysis.
ISAnalyze_SkipPersist(c, up) ==
  /\ call[c].pc = "analyze"
  /\ call' = [call EXCEPT ![c] = [@ EXCEPT !.pc = "notifyResult"]]
  /\ UNCHANGED <<opVars, schedVars, dbVars, timeline, cycle, report, task, faults,
                 isMonitoring, analyses, notifications, anVars>>

\* analysisService.analyzeTweet(tweet.text) resolves. Its argument is the
\* text string, which has neither id nor text: the lookup matches no row,
\* the content analysis runs with the backend up or down, and saveAnalysis
\* inserts a row without tweet id.
ISAnalyze(c, up) ==
  /\ call[c].pc = "analyze"
  /\ LET result == analyzeContent(TweetText(NULL), maxSummaryLength,
                                  IF up THEN SentimentFull ELSE SentimentDown,
                                  IF up THEN KeywordsList ELSE KeywordsDown,
                                  IF up THEN SummaryText ELSE SummaryDown)
     IN /\ getAnalysis(Analysis, NULL).exists = FALSE
        /\ AnalysisInsertAccepted(Analysis, NULL)
        /\ Analysis' = Append(Analysis, AnalysisRow(NULL, result))
  /\ call' = [call EXCEPT ![c] = [@ EXCEPT !.pc = "persist"]]
  /\ UNCHANGED <<opVars, schedVars, dbVars, timeline, cycle, report, task, faults,
                 isMonitoring, analyses, notifications, job>>

\* db.saveTweetAnalysis resolves.
saveTweetAnalysis(c) ==
  /\ call[c].pc = "persist"
  /\ analyses' = Append(analyses, call[c].newTweets[call[c].j])
  /\ call' = [call EXCEPT ![c] = [@ EXCEPT !.pc = "notifyResult"]]
  /\ UNCHANGED <<opVars, schedVars, dbVars, timeline, cycle, report, task, faults,
                 isMonitoring, notifications, anVars>>

NextIntegrated ==
  \/ \E id \in PostIds : Publish(id)
  \/ \E a \in AccountNames, b \in BOOLEAN : toggleAccountStatus(a, b)
  \/ \E c \in Calls : startMonitoringAndAnalysis(c)
  \/ \E c \in Calls : ISLoadAccounts(c)
  \/ \E c \in Calls : ISLoadAccountsFail(c)
  \/ \E c \in Calls : getAndStoreLatestTweets(c)
  \/ \E c \in Calls : ISStepFail(c)
  \/ \E c \in Calls, d \in BOOLEAN : ISNotify(c, d)
  \/ \E c \in Calls, up \in BOOLEAN : ISAnalyze(c, up)
  \/ \E c \in Calls : saveTweetAnalysis(c)

SpecIntegrated == Init /\ [][NextIntegrated]_vars

\* The awaited collaborator call of invocation c returns, with a result or
\* with a failure, and the invocation runs on to its next await or to its end.
ISStep(c) ==
  \/ ISLoadAccounts(c)
  \/ ISLoadAccountsFail(c)
  \/ getAndStoreLatestTweets(c)
  \/ ISStepFail(c)
  \/ \E d \in BOOLEAN : ISNotify(c, d)
  \/ \E up \in BOOLEAN : ISAnalyze(c, up)
  \/ saveTweetAnalysis(c)

\* IntegratedService under the assumption that every collaborator call
\* eventually returns.
FairIntegrated ==
  /\ SpecIntegrated
  /\ \A c \in Calls : WF_vars(ISStep(c))

\* What startMonitoringAndAnalysis hands to its caller: each of its exits is
\* a bare return or the end of the function body, so the promise resolves
\* with undefined and carries no counts.
startMonitoringAndAnalysisReturn(cl) ==
  [defined |-> FALSE, accountsProcessed |-> 0, accountsFailed |-> 0,
   postsProcessed |-> 0]

\* Two active accounts; x has cursor 100, tweet 100 is stored, and the
\* platform has three newer tweets of x (101, 103, 104) and one of y (102).
InitScenario ==
  /\ isRunning = FALSE
  /\ cronJob = FALSE
  /\ lastTrigger = "none"
  /\ timers = 0
  /\ lastLog = "none"
  /\ last_tweet_id = [a \in AccountNames |-> IF a = "x" THEN 100 ELSE NULL]
  /\ is_active = [a \in AccountNames |-> TRUE]
  /\ tweets = <<100>>
  /\ raw_data = <<Fetched>>
  /\ timeline = 100..104
  /\ cycle = [c \in Cycles |-> IdleCycle]
  /\ report = NoReport
  /\ task = [c \in Cycles |-> [a \in AccountNames |-> NoTask]]
  /\ faults = 0
  /\ isMonitoring = FALSE
  /\ call = [c \in Calls |-> IdleCall]
  /\ analyses = <<>>
  /\ notifications = <<>>
  /\ job = [j \in Jobs |-> IdleJob]
  /\ Analysis = <<>>
  /\ monitored_accounts = AccountOrder
  /\ add = [p \in Adds |-> IdleAdd]
  /\ isAnalyzing = FALSE
  /\ batch = [b \in Batches |-> IdleBatch]
  /\ ntfy = [configured |-> TRUE, posted |-> <<>>]

\* The scenario makes each of its calls once.
ScenarioCall(c) ==
  /\ call[c].pc = "idle"
  /\ startMonitoringAndAnalysis(c)

NextScenario ==
  \/ \E c \in Calls : ScenarioCall(c)
  \/ \E c \in Calls : ISLoadAccounts(c)
  \/ \E c \in Calls : ISLoadAccountsFail(c)
  \/ \E c \in Calls : getAndStoreLatestTweets(c)
  \/ \E c \in Calls : ISStepFail(c)
  \/ \E c \in Calls, d \in BOOLEAN : ISNotify(c, d)
  \/ \E c \in Calls, up \in BOOLEAN : ISAnalyze(c, up)
  \/ \E c \in Calls : saveTweetAnalysis(c)

SpecScenario == InitScenario /\ [][NextScenario]_vars

\* The id that analyzeTweet reads from its argument (tweet.id).
TweetId(jb) == jb.tweet

\* analyzeTweet(tweet, {maxSummaryLength}) is called: it runs up to
\* await this.getAnalysis(tweet.id).
analyzeTweet(j, tw, n) ==
  /\ job[j].pc = "idle"
  /\ \A i \in Jobs : i < j => job[i].pc # "idle"
  /\ job' = [job EXCEPT ![j] = [IdleJob EXCEPT !.pc = "lookup", !.tweet = tw,
                                               !.maxLength = n]]
  /\ UNCHANGED <<opVars, schedVars, dbVars, timeline, cycle, report, task, faults,
                 isVars, Analysis>>

\* After a lookup that found nothing: deepseekClient.analyzeContent sends its
\* three requests and awaits Promise.allSettled.
StartContent(jb) ==
  [jb EXCEPT !.pc = "backend", !.calls = @ + 3,
             !.pending = {"sentiment", "keywords", "summary"}]

\* getAnalysis resolves: an existing analysis is returned as it is, otherwise
\* the content analysis starts.
AnalyzeLookup(j) ==
  /\ job[j].pc = "lookup"
  /\ LET found == getAnalysis(Analysis, TweetId(job[j]))
     IN job' = [job EXCEPT ![j] =
                  IF found.exists
                  THEN [@ EXCEPT !.pc = "returned", !.ret = found.analysis]
                  ELSE StartContent(@)]
  /\ UNCHANGED <<opVars, schedVars, dbVars, timeline, cycle, report, task, faults,
                 isVars, Analysis>>

\* database.get rejects: the catch of getAnalysis logs and returns null.
AnalyzeLookupFail(j) ==
  /\ job[j].pc = "lookup"
  /\ Fault
  /\ job' = [job EXCEPT ![j] = StartContent(@)]
  /\ UNCHANGED <<opVars, schedVars, dbVars, timeline, cycle, report, task,
                 isVars, Analysis>>

\* One of the three tasks of analyzeContent has settled with result r: when
\* it was the last one, allSettled resolves, analyzeContent returns and
\* saveAnalysis awaits its INSERT.
TaskSettled(jb, which, reply, r) ==
  [jb EXCEPT !.result = r,
             !.down = IF reply.ok THEN @ ELSE @ \cup {which},
             !.pending = @ \ {which},
             !.pc = IF jb.pending = {which} THEN "save" ELSE "backend"]

SentimentSettles(j, reply) ==
  /\ job[j].pc = "backend"
  /\ "sentiment" \in job[j].pending
  /\ LET jb == job[j]
         text == TweetText(jb.tweet)
     IN job' = [job EXCEPT ![j] =
                  TaskSettled(jb, "sentiment", reply,
                              OnSentiment(jb.result, analyzeSentiment(text, reply)))]
  /\ UNCHANGED <<opVars, schedVars, dbVars, timeline, cycle, report, task, faults,
                 isVars, Analysis>>

KeywordsSettles(j, reply) ==
  /\ job[j].pc = "backend"
  /\ "keywords" \in job[j].pending
  /\ LET jb == job[j]
         text == TweetText(jb.tweet)
     IN job' = [job EXCEPT ![j] =
                  TaskSettled(jb, "keywords", reply,
                              OnKeywords(jb.result, extractKeywords(text, reply)))]
  /\ UNCHANGED <<opVars, schedVars, dbVars, timeline, cycle, report, task, faults,
                 isVars, Analysis>>

SummarySettles(j, reply) ==
  /\ job[j].pc = "backend"
  /\ "summary" \in job[j].pending
  /\ LET jb == job[j]
         text == TweetText(jb.tweet)
     IN job' = [job EXCEPT ![j] =
                  TaskSettled(jb, "summary", reply,
                              OnSummary(jb.result, text, jb.maxLength,
                                        generateSummary(text, jb.maxLength, reply)))]
  /\ UNCHANGED <<opVars, schedVars, dbVars, timeline, cycle, report, task, faults,
                 isVars, Analysis>>

\* saveAnalysis: the INSERT resolves and analyzeTweet returns the record.
AnalyzeInsert(j) ==
  /\ job[j].pc = "save"
  /\ AnalysisInsertAccepted(Analysis, TweetId(job[j]))
  /\ Analysis' = Append(Analysis, AnalysisRow(TweetId(job[j]), job[j].result))
  /\ job' = [job EXCEPT ![j] =
               [@ EXCEPT !.pc = "returned",
                         !.ret = SavedAnalysis(TweetId(job[j]), job[j].result)]]
  /\ UNCHANGED <<opVars, schedVars, dbVars, timeline, cycle, report, task, faults,
                 isVars>>

\* saveAnalysis: the INSERT rejects; saveAnalysis and analyzeTweet rethrow.
AnalyzeInsertFail(j) ==
  /\ job[j].pc = "save"
  /\ Fault
  /\ job' = [job EXCEPT ![j] = [@ EXCEPT !.pc = "threw"]]
  /\ UNCHANGED <<opVars, schedVars, dbVars, timeline, cycle, report, task,
                 isVars, Analysis>>

NextAnalysis ==
  \/ \E j \in Jobs, tw \in PostIds \cup {NULL},
        n \in {ShortLen, maxSummaryLength} : analyzeTweet(j, tw, n)
  \/ \E j \in Jobs : AnalyzeLookup(j)
  \/ \E j \in Jobs : AnalyzeLookupFail(j)
  \/ \E j \in Jobs, reply \in SentimentReplies : SentimentSettles(j, reply)
  \/ \E j \in Jobs, reply \in KeywordReplies : KeywordsSettles(j, reply)
  \/ \E j \in Jobs, reply \in SummaryReplies : SummarySettles(j, reply)
  \/ \E j \in Jobs : AnalyzeInsert(j)
  \/ \E j \in Jobs : AnalyzeInsertFail(j)

\* The analysis service alone: the monitoring side stays as constructed.
InitAnalysis == Init /\ \A a \in AccountNames : is_active[a]

SpecAnalysis == InitAnalysis /\ [][NextAnalysis]_vars


\* The account list under addAccount and removeAccount calls.
NextAdd ==
  \/ \E p \in Adds, u \in Usernames : addAccount(p, u)
  \/ \E p \in Adds : AddCheck(p)
  \/ \E p \in Adds : AddLookup(p)
  \/ \E p \in Adds : AddLookupFail(p)
  \/ \E p \in Adds : AddInsert(p)
  \/ \E u \in Usernames : removeAccount(u)

SpecAdd == InitAccounts /\ [][NextAdd]_vars

\* ------------------------------------- AnalysisService.analyzeTweets
\* The lists of tweets that a caller passes to analyzeTweets.
BatchInputs == UNION {[1..n -> PostIds] : n \in 0..MaxBatchLen}

\* The analyzeTweet invocation that the next call takes.
FreeJob == CHOOSE j \in Jobs :
             /\ job[j].pc = "idle"
             /\ \A i \in Jobs : i < j => job[i].pc # "idle"

\* The for loop of analyzeTweets reaches its tweet number i with the batch as
\* bt: it calls analyzeTweet(tweet, options), which runs up to its await
\* getAnalysis; past the last tweet analyzeTweets returns results and its
\* finally resets isAnalyzing.
Iterate(b, bt, i) ==
  IF i > Len(bt.tweets)
  THEN /\ batch' = [batch EXCEPT ![b] = [bt EXCEPT !.pc = "returned", !.i = i]]
       /\ isAnalyzing' = FALSE
       /\ UNCHANGED job
  ELSE /\ batch' = [batch EXCEPT ![b] =
                      [bt EXCEPT !.pc = "analyze", !.i = i,
                                 !.jobs = Append(@, FreeJob)]]
       /\ isAnalyzing' = TRUE
       /\ job' = [job EXCEPT ![FreeJob] =
                    [IdleJob EXCEPT !.pc = "lookup", !.tweet = bt.tweets[i],
                                    !.maxLength = bt.maxLength]]

\* analyzeTweets(tweets, {maxSummaryLength}) is called: with isAnalyzing set
\* it returns []; otherwise it sets isAnalyzing and enters its loop.
analyzeTweets(b, tws, n) ==
  /\ batch[b].pc = "idle"
  /\ \A i \in Batches : i < b => batch[i].pc # "idle"
  /\ Cardinality({j \in Jobs : job[j].pc = "idle"}) >= Len(tws)
  /\ IF isAnalyzing
     THEN /\ batch' = [batch EXCEPT ![b] = [IdleBatch EXCEPT !.pc = "skipped"]]
          /\ UNCHANGED <<isAnalyzing, job>>
     ELSE Iterate(b, [IdleBatch EXCEPT !.tweets = tws, !.maxLength = n], 1)
  /\ UNCHANGED <<add, ntfy, schedVars, dbVars, timeline, cycle, report, task,
                 faults, isVars, Analysis>>

\* analyzeTweets(undefined) whose finally block is missing.
analyzeTweetsUndefined_NoFinally(b) ==
  /\ batch[b].pc = "idle"
  /\ \A i \in Batches : i < b => batch[i].pc # "idle"
  /\ IF isAnalyzing
     THEN /\ batch' = [batch EXCEPT ![b] = [IdleBatch EXCEPT !.pc = "skipped"]]
          /\ UNCHANGED isAnalyzing
     ELSE /\ batch' = [batch EXCEPT ![b] = [IdleBatch EXCEPT !.pc = "threw"]]
          /\ isAnalyzing' = TRUE
  /\ UNCHANGED <<add, ntfy, schedVars, dbVars, timeline, cycle, report, task,
                 faults, isVars, anVars>>

\* analyzeTweets is called without a list: with isAnalyzing set it returns
\* []; otherwise it sets isAnalyzing, tweets.length throws inside the try,
\* the finally resets isAnalyzing and the call rejects.
analyzeTweetsUndefined(b) ==
  /\ batch[b].pc = "idle"
  /\ \A i \in Batches : i < b => batch[i].pc # "idle"
  /\ IF isAnalyzing
     THEN /\ batch' = [batch EXCEPT ![b] = [IdleBatch EXCEPT !.pc = "skipped"]]
          /\ UNCHANGED isAnalyzing
     ELSE /\ batch' = [batch EXCEPT ![b] = [IdleBatch EXCEPT !.pc = "threw"]]
          /\ isAnalyzing' = FALSE
  /\ UNCHANGED <<add, ntfy, schedVars, dbVars, timeline, cycle, report, task,
                 faults, isVars, anVars>>

\* The analyzeTweet invocation that the batch is awaiting.
CurrentJob(bt) == bt.jobs[Len(bt.jobs)]

\* analyzeTweet has returned: the analysis is pushed and the batch awaits
\* delay(1000).
BatchAnalyzed(b) ==
  /\ batch[b].pc = "analyze"
  /\ job[CurrentJob(batch[b])].pc = "returned"
  /\ batch' = [batch EXCEPT ![b] =
                 [@ EXCEPT !.pc = "delay",
                           !.results = Append(@, job[CurrentJob(batch[b])].ret)]]
  /\ UNCHANGED <<add, isAnalyzing, ntfy, schedVars, dbVars, timeline, cycle,
                 report, task, faults, isVars, anVars>>

\* analyzeTweet has thrown and the error leaves the loop: the finally resets
\* isAnalyzing and analyzeTweets rejects.
BatchCaught_Rethrow(b) ==
  /\ batch[b].pc = "analyze"
  /\ job[CurrentJob(batch[b])].pc = "threw"
  /\ batch' = [batch EXCEPT ![b] = [@ EXCEPT !.pc = "threw"]]
  /\ isAnalyzing' = FALSE
  /\ UNCHANGED <<add, ntfy, schedVars, dbVars, timeline, cycle, report, task,
                 faults, isVars, anVars>>

\* analyzeTweet has thrown: the catch inside the loop logs the error and the
\* loop continues with the next tweet.
BatchCaught(b) ==
  /\ batch[b].pc = "analyze"
  /\ job[CurrentJob(batch[b])].pc = "threw"
  /\ Iterate(b, batch[b], batch[b].i + 1)
  /\ UNCHANGED <<add, ntfy, schedVars, dbVars, timeline, cycle, report, task,
                 faults, isVars, Analysis>>

\* delay(1000) resolves: the loop continues with the next tweet.
BatchDelay(b) ==
  /\ batch[b].pc = "delay"
  /\ Iterate(b, batch[b], batch[b].i + 1)
  /\ UNCHANGED <<add, ntfy, schedVars, dbVars, timeline, cycle, report, task,
                 faults, isVars, Analysis>>

\* The batches of analyzeTweets with the analyzeTweet invocations they make.
NextBatch ==
  \/ \E b \in Batches, tws \in BatchInputs :
       analyzeTweets(b, tws, maxSummaryLength)
  \/ \E b \in Batches : analyzeTweetsUndefined(b)
  \/ \E b \in Batches : BatchAnalyzed(b)
  \/ \E b \in Batches : BatchCaught(b)
  \/ \E b \in Batches : BatchDelay(b)
  \/ \E j \in Jobs : AnalyzeLookup(j)
  \/ \E j \in Jobs : AnalyzeLookupFail(j)
  \/ \E j \in Jobs, reply \in SentimentReplies : SentimentSettles(j, reply)
  \/ \E j \in Jobs, reply \in KeywordReplies : KeywordsSettles(j, reply)
  \/ \E j \in Jobs, reply \in SummaryReplies : SummarySettles(j, reply)
  \/ \E j \in Jobs : AnalyzeInsert(j)
  \/ \E j \in Jobs : AnalyzeInsertFail(j)

SpecBatch == InitAnalysis /\ [][NextBatch]_vars

\* ------------------------------------------------- NotificationService
\* The types that callers pass to sendSystemNotification: the three of its
\* switch, one of them in another case, and one it does not know.
NotifyTypes == {"error", "warning", "info", "Error", "debug"}

\* type.charAt(0).toUpperCase() + type.slice(1)
Capitalize(type) ==
  CASE type = "error" -> "Error"
    [] type = "warning" -> "Warning"
    [] type = "info" -> "Info"
    [] type = "debug" -> "Debug"
    [] OTHER -> type

\* The switch of sendSystemNotification passing the type on as the priority.
SystemPriority_PassThrough(type) == type

\* The priority that the switch of sendSystemNotification chooses.
SystemPriority(type) ==
  CASE type = "error" -> "urgent"
    [] type = "warning" -> "high"
    [] OTHER -> "default"

\* The tags that the switch of sendSystemNotification chooses.
SystemTags(type) ==
  CASE type = "error" -> "warning"
    [] type = "warning" -> "warning"
    [] type = "info" -> "information_source"
    [] OTHER -> "gear"

\* sendNotification(title, message, priority, tags): without configuration
\* it returns at once; otherwise it posts the request, whose failure is
\* logged. from names the caller and its type argument.
sendNotification(from, title, priority, tags, delivered) ==
  /\ ntfy' = IF ntfy.configured
             THEN [ntfy EXCEPT !.posted =
                     Append(@, [from |-> from, title |-> title,
                                priority |-> priority, tags |-> tags,
                                delivered |-> delivered])]
             ELSE ntfy
  /\ UNCHANGED <<add, isAnalyzing, batch, schedVars, dbVars, timeline, cycle,
                 report, task, faults, isVars, anVars>>

sendNewTweetNotification(delivered) ==
  /\ Len(ntfy.posted) < MaxPosted
  /\ sendNotification(<<"sendNewTweetNotification">>, "New Tweet from",
                      "default", "bird", delivered)

sendAnalysisResultNotification(delivered) ==
  /\ Len(ntfy.posted) < MaxPosted
  /\ sendNotification(<<"sendAnalysisResultNotification">>,
                      "Analysis Result for Tweet from", "high",
                      "chart_with_upwards_trend", delivered)

sendSystemNotification(type, delivered) ==
  /\ Len(ntfy.posted) < MaxPosted
  /\ sendNotification(<<"sendSystemNotification", type>>,
                      <<"System", Capitalize(type)>>,
                      SystemPriority(type), SystemTags(type), delivered)

\* The notifier alone, configured or not.
InitNotify ==
  /\ Constructed
  /\ \A a \in AccountNames : is_active[a]
  /\ ntfy \in {[configured |-> cfg, posted |-> <<>>] : cfg \in BOOLEAN}

NextNotify ==
  \/ \E d \in BOOLEAN : sendNewTweetNotification(d)
  \/ \E d \in BOOLEAN : sendAnalysisResultNotification(d)
  \/ \E type \in NotifyTypes, d \in BOOLEAN : sendSystemNotification(type, d)

SpecNotify == InitNotify /\ [][NextNotify]_vars


\* ==================================================================== claims
\* An invocation of startMonitoringAndAnalysis that is past the guard.
CallActive(c) == ~CallEnded(call[c])

\* A monitorAllAccounts invocation that has not finished.
CycleActive(c) == cycle[c].pc # "idle"

\* C1: single-flight cycle of IntegratedService. At no time are two
\* invocations of startMonitoringAndAnalysis past the guard, and an
\* invocation made while another one has not finished ends at once as
\* "skipped" (a plain return, not a throw) without touching the accounts,
\* the stored tweets, the analyses, the notifications or the guard.
C1_SingleFlight ==
  /\ [](Cardinality({c \in Calls : CallActive(c)}) <= 1)
  /\ [][\A c \in Calls :
          (/\ CallEnded(call[c])
           /\ call'[c] # call[c]
           /\ \E d \in Calls \ {c} : CallActive(d))
          => /\ call'[c] = [IdleCall EXCEPT !.pc = "skipped"]
             /\ UNCHANGED <<dbVars, analyses, notifications, isMonitoring, faults>>
             /\ \A d \in Calls \ {c} : call'[d] = call[d]]_vars

\* One invocation is inside the account loop and a later one was skipped.
C1_Witness ==
  \E c, d \in Calls :
    /\ call[c].pc = "skipped"
    /\ call[d].pc \in {"fetch", "notifyNew", "analyze", "persist", "notifyResult"}

\* C2: fires of MonitorService are dropped while a cycle runs, so that two
\* monitorAllAccounts cycles never overlap.
C2_CyclesNeverOverlap ==
  Cardinality({c \in Cycles : CycleActive(c)}) <= 1

\* C3: whenever no invocation of startMonitoringAndAnalysis is running any
\* more, the guard isMonitoring is released, whatever way the invocations
\* that acquired it have ended.
C3_GuardReleased ==
  (\A c \in Calls : CallEnded(call[c])) => ~isMonitoring

\* a < b in the order the code applies to ids (NULL below every id).
IdLess(a, b) == a # b /\ (a = NULL \/ (b # NULL /\ StrGt(b, a)))

\* C4: the stored cursor of an account only ever advances: no step stores a
\* last_tweet_id lower than the one stored before it.
C4_CursorMonotone ==
  [][\A a \in AccountNames :
       last_tweet_id'[a] # last_tweet_id[a]
       => IdLess(last_tweet_id[a], last_tweet_id'[a])]_vars

\* A monitorAccount run that has been started and has not settled.
Running(t) == t.pc \in {"fetch", "query", "insert", "update"}

\* This step settles the monitorAccount run of a in cycle c as fulfilled
\* (as rejected): either the promise is seen settled, or the step also ends
\* the cycle and the status is in the results that the cycle counts.
RunFulfilled(c, a) ==
  /\ Running(task[c][a])
  /\ \/ task'[c][a].pc = "fulfilled"
     \/ cycle[c].pc = "run" /\ cycle'[c].pc = "idle" /\ a \in report'.fulfilled

RunRejected(c, a) ==
  /\ Running(task[c][a])
  /\ \/ task'[c][a].pc = "rejected"
     \/ cycle[c].pc = "run" /\ cycle'[c].pc = "idle" /\ a \in report'.rejected

\* The tweets of an account in a table of tweet rows.
TweetsOf(rows, a) == {id \in Range(rows) : Owner(id) = a}

\* id is the greatest element of the non-empty set S in the order of ids.
IsMaxOf(id, S) == id \in S /\ \A o \in S : ~StrGt(o, id)

\* C5: whenever a step changes the cursor of an account, it is the
\* updateLastTweetId of one monitorAccount run of that account, and the value
\* stored is the greatest id among the tweets that this run inserted itself
\* (never one that it skipped as present or whose write failed), and it
\* exceeds the cursor that the run started from.
C5_CursorTarget ==
  [][\A a \in AccountNames :
       last_tweet_id'[a] # last_tweet_id[a]
       => \E c \in Cycles :
            LET t == task[c][a] IN
            /\ t.pc = "update"
            /\ task'[c][a] # t
            /\ last_tweet_id'[a] = t.latestTweetId
            /\ IsMaxOf(t.latestTweetId, Range(t.saved))
            /\ Range(t.saved) \subseteq Range(tweets)
            /\ \A k \in t.failedAt : t.tweets[k] \notin Range(t.saved)
            /\ IdLess(t.snap, t.latestTweetId)]_vars

\* A cursor has been written in a run with a failure: it points at the newest
\* stored tweet of the account and an older tweet of the account is stored.
C5_Witness ==
  \E a \in AccountNames :
    /\ last_tweet_id[a] # NULL
    /\ IsMaxOf(last_tweet_id[a], TweetsOf(tweets, a))
    /\ Cardinality(TweetsOf(tweets, a)) > 1
    /\ faults > 0

\* C6: when a monitorAccount run of account A that started from cursor C
\* completes successfully, the stored cursor C' satisfies C' >= C and is the
\* greatest id among all tweets of A in storage.
C6_CursorIsMaxPersisted ==
  [][\A c \in Cycles, a \in AccountNames :
       RunFulfilled(c, a)
       => LET C == task[c][a].snap
              Cnew == last_tweet_id'[a]
              P == TweetsOf(tweets', a)
          IN /\ Cnew = C \/ IdLess(C, Cnew)
             /\ P # {} => IsMaxOf(Cnew, P)]_vars

\* The run of a in cycle c takes this step, and it is not a failure injected
\* into a collaborator.
StepsOk(c, a) == task'[c][a] # task[c][a] /\ faults' = faults

\* C7: fetch idempotence. (1) A run whose cursor is set and not below any
\* published tweet of its account gets an empty fetch and ends fulfilled with
\* the stored tweets and the cursors unchanged. (2) When saveTweet finds the
\* tweet in storage it skips it: no insert is attempted, nothing is stored or
\* counted as saved, the cursor candidate stays and the run does not fail.
\* (3) A run reaches its cursor update only after it has inserted a tweet.
C7_FetchIdempotent ==
  /\ [][\A c \in Cycles, a \in AccountNames :
          LET t == task[c][a] IN
          /\ (/\ t.pc = "fetch" /\ StepsOk(c, a)
              /\ t.snap # NULL
              /\ \A id \in timeline : Owner(id) = a => id <= t.snap)
             => /\ RunFulfilled(c, a)
                /\ UNCHANGED <<tweets, last_tweet_id>>
          /\ (/\ t.pc = "query" /\ StepsOk(c, a)
              /\ t.tweets[t.i] \in Range(tweets))
             => /\ UNCHANGED <<tweets, last_tweet_id>>
                /\ ~RunRejected(c, a)
                /\ task'[c][a].pc # "insert"
                /\ Running(task'[c][a])
                   => /\ task'[c][a].saved = t.saved
                      /\ task'[c][a].latestTweetId = t.latestTweetId
                      /\ task'[c][a].failedAt = t.failedAt]_vars
  /\ [](\A c \in Cycles, a \in AccountNames :
          task[c][a].pc = "update" => task[c][a].saved # <<>>)

\* A second run of an account is awaiting its fetch: its cursor was advanced
\* by an earlier run, and the platform has published nothing newer since.
C7_Witness ==
  \E c \in Cycles, a \in AccountNames :
    LET t == task[c][a] IN
    /\ t.pc = "fetch"
    /\ t.snap # NULL
    /\ t.snap = last_tweet_id[a]
    /\ \A id \in timeline : Owner(id) = a => id <= t.snap

\* C8: post dedup. No id is stored twice in the tweets table, and a saveTweet
\* step for an id that is already stored (the second of two saves in
\* sequence, or the insert of a run that lost the race to another run) stores
\* nothing and does not count the tweet as saved.
C8_PostDedup ==
  /\ [](\A p, q \in 1..Len(tweets) : tweets[p] = tweets[q] => p = q)
  /\ [][\A c \in Cycles, a \in AccountNames :
          LET t == task[c][a] IN
          (/\ t.pc \in {"query", "insert"}
           /\ task'[c][a] # t
           /\ t.tweets[t.i] \in Range(tweets))
          => /\ tweets' = tweets
             /\ Running(task'[c][a]) => task'[c][a].saved = t.saved]_vars

\* Two interleaved runs fetched the same tweet; one has inserted it while the
\* other, which found it absent, is about to insert it too.
C8_Witness ==
  \E c \in Cycles, a \in AccountNames :
    /\ task[c][a].pc = "insert"
    /\ task[c][a].tweets[task[c][a].i] \in Range(tweets)

\* s lists elements of full in the order they have in full (full has no
\* repeated element).
InOrderOf(s, full) ==
  /\ Range(s) \subseteq Range(full)
  /\ \A p, q \in 1..Len(s) :
       p < q => \E m, n \in 1..Len(full) : m < n /\ full[m] = s[p] /\ full[n] = s[q]

\* C9: per-post write isolation. A saveTweet that fails never fails the run:
\* the loop goes on with the next fetched tweet and leaves only after the
\* last one; the failed tweet is not among the newly persisted tweets, which
\* keep the order of the fetch.
C9_WriteIsolation ==
  /\ [](\A c \in Cycles, a \in AccountNames :
          LET t == task[c][a] IN
          t.pc \in {"query", "insert", "update"}
          => /\ InOrderOf(t.saved, t.tweets)
             /\ \A k \in t.failedAt : t.tweets[k] \notin Range(t.saved))
  /\ [][\A c \in Cycles, a \in AccountNames :
          LET t == task[c][a]
              u == task'[c][a]
          IN (t.pc \in {"query", "insert"} /\ u # t)
             => /\ ~RunRejected(c, a)
                /\ u.pc \in {"query", "insert"}
                   => u.tweets = t.tweets /\ u.i \in {t.i, t.i + 1}
                /\ u.pc \notin {"query", "insert"} => t.i = Len(t.tweets)
                /\ (faults' # faults /\ Running(u))
                   => u.saved = t.saved /\ t.i \in u.failedAt /\ u.i = t.i + 1]_vars

\* A run went on after a failed write and persisted a later tweet.
C9_Witness ==
  \E c \in Cycles, a \in AccountNames :
    LET t == task[c][a] IN
    /\ Running(t)
    /\ \E k \in t.failedAt : \E m \in (k + 1)..Len(t.tweets) : t.tweets[m] \in Range(t.saved)

\* C10: account failure isolation in monitorAllAccounts. Every active account
\* loaded by the cycle has its fetch started; the failure of one account's
\* run leaves the runs of its siblings as they are; and the cycle ends only
\* with an outcome for every loaded account.
C10_AccountIsolation ==
  /\ [](\A c \in Cycles :
          cycle[c].pc = "run"
          => \A a \in Range(cycle[c].loaded) : task[c][a].pc # "none")
  /\ [][\A c \in Cycles :
          /\ (cycle[c].pc = "load" /\ cycle'[c].pc = "run")
             => \A a \in AccountNames : is_active[a] => task'[c][a].pc = "fetch"
          /\ (cycle[c].pc = "run" /\ cycle'[c].pc = "idle")
             => report'.fulfilled \cup report'.rejected = Range(cycle[c].loaded)
          /\ \A a \in AccountNames :
               RunRejected(c, a)
               => \A b \in AccountNames \ {a} :
                    Running(task[c][b]) => task'[c][b] = task[c][b]]_vars

\* One account's run has failed and the run of a sibling in the same cycle
\* is past its fetch.
C10_Witness ==
  \E c \in Cycles, a, b \in AccountNames :
    /\ task[c][a].pc = "rejected"
    /\ task[c][b].pc \in {"query", "insert", "update"}

\* The three sub-analyses of analyzeContent.
SubAnalyses == {"sentiment", "keywords", "summary"}

\* The keys of a complete analysis result.
ResultKeys == {"sentiment", "sentimentReason", "keywords", "summary"}

\* C11: analyzeContent never fails, and when the backend fails all three
\* requests for a text, the result it returns is the fallback tuple: sentiment
\* "neutral" with the rationale "analysis failed", no keywords, and the first
\* maxSummaryLength characters of the text followed by the marker.
C11_AnalyzeFallback ==
  /\ [][\A j \in Jobs :
          job[j].pc = "backend" => job'[j].pc \in {"backend", "save"}]_vars
  /\ [](\A j \in Jobs :
          LET jb == job[j]
              text == TweetText(jb.tweet)
          IN (jb.pc = "save" /\ jb.down = SubAnalyses /\ text.defined)
             => /\ jb.result.has = ResultKeys
                /\ jb.result.sentiment = "neutral"
                /\ jb.result.sentimentReason = AnalysisFailed
                /\ jb.result.keywords = <<>>
                /\ jb.result.summary = Substring(text.chars, jb.maxLength) \o Marker)

\* C12: when only the sentiment request fails, the result has sentiment
\* "neutral" with the rationale "analysis failed", and its keywords and
\* summary are the values that the keyword and the summary sub-analysis
\* returned; and the settling of one sub-analysis leaves what the other two
\* have set, and their still being awaited, as it was.
C12_SubAnalysisFallback ==
  /\ [](\A j \in Jobs :
          LET jb == job[j] IN
          (jb.pc = "save" /\ jb.down = {"sentiment"})
          => /\ jb.result.sentiment = "neutral"
             /\ jb.result.sentimentReason = AnalysisFailed
             /\ jb.result.keywords \in {KeywordsList.keywords, <<>>}
             /\ jb.result.summary = Trim(SummaryText.content))
  /\ [][\A j \in Jobs :
          LET p == job[j]
              q == job'[j]
          IN (p.pc = "backend" /\ q # p)
             => /\ Cardinality(p.pending \ q.pending) = 1
                /\ q.pending \subseteq p.pending
                /\ "sentiment" \in q.pending \/ "sentiment" \notin p.pending
                   => /\ q.result.sentiment = p.result.sentiment
                      /\ q.result.sentimentReason = p.result.sentimentReason
                /\ "keywords" \in q.pending \/ "keywords" \notin p.pending
                   => q.result.keywords = p.result.keywords
                /\ "summary" \in q.pending \/ "summary" \notin p.pending
                   => q.result.summary = p.result.summary]_vars

\* C13: storage holds at most one analysis record for each tweet id, after
\* any sequence and interleaving of analyzeTweet calls.
C13_OneAnalysisPerPost ==
  \A id \in PostIds : Cardinality(MatchingRows(Analysis, id)) <= 1

\* The first row of Analysis stored for a tweet id.
FirstRow(rows, id) ==
  rows[CHOOSE k \in MatchingRows(rows, id) :
         \A o \in MatchingRows(rows, id) : k <= o]

PostSteps == {"notifyNew", "analyze", "persist", "notifyResult"}

\* C15: per-post pipeline order. A call takes the steps of a tweet in the
\* order new-tweet notification, analysis, persistence of the analysis,
\* result notification, and turns to the next tweet of the list only from
\* the finished result notification of the one before; while it works on
\* tweet j of an account, every earlier tweet of the list has its analysis
\* persisted and no later tweet has had any step.
C15_PipelineOrder ==
  /\ [][\A c \in Calls :
          LET p == call[c]
              q == call'[c]
          IN (q # p /\ q.pc \in PostSteps)
             => /\ q.pc = "analyze"
                   => p.pc = "notifyNew" /\ q.j = p.j /\ q.k = p.k
                /\ q.pc = "persist"
                   => p.pc = "analyze" /\ q.j = p.j /\ q.k = p.k
                /\ q.pc = "notifyResult"
                   => p.pc = "persist" /\ q.j = p.j /\ q.k = p.k
                /\ q.pc = "notifyNew"
                   => \/ p.pc = "notifyResult" /\ q.j = p.j + 1 /\ q.k = p.k
                      \/ p.pc = "fetch" /\ q.j = 1 /\ q.k = p.k
                /\ p.pc \in PostSteps => q.newTweets = p.newTweets]_vars
  /\ [](\A c \in Calls :
          LET cl == call[c] IN
          cl.pc \in PostSteps
          => /\ \A i \in 1..(cl.j - 1) : cl.newTweets[i] \in Range(analyses)
             /\ \A i \in (cl.j + 1)..Len(cl.newTweets) :
                  /\ cl.newTweets[i] \notin Range(analyses)
                  /\ <<"notifyNew", cl.newTweets[i]>> \notin Range(notifications)
             /\ cl.newTweets[cl.j] \in Range(analyses) <=> cl.pc = "notifyResult"
             /\ <<"notifyResult", cl.newTweets[cl.j]>> \notin Range(notifications))

\* A call has finished the first tweet of an account and is at the first
\* step of the second one.
C15_Witness ==
  \E c \in Calls :
    /\ call[c].pc = "notifyNew"
    /\ call[c].j = 2
    /\ <<"notifyResult", call[c].newTweets[1]>> \in Range(notifications)

\* C16: when persisting the analysis of tweet j fails and the account has
\* a later tweet, the call goes on with the new-tweet notification of tweet
\* j + 1 of the same account.
C16_PersistFailureSkip ==
  [][\A c \in Calls :
       LET p == call[c]
           q == call'[c]
       IN (/\ p.pc = "sysNotify" /\ p.err = "persist"
           /\ p.j < Len(p.newTweets)
           /\ q # p)
          => q.pc = "notifyNew" /\ q.j = p.j + 1 /\ q.k = p.k]_vars

\* C17: best-effort notifications. A notification step, delivered or not,
\* never ends the call by throwing and never enters the catch of the account
\* loop; it changes no stored data; and the call goes on exactly as after a
\* delivery: from the new-tweet notification to the analysis of the same
\* tweet, from the result notification to the next tweet or account, from
\* the system notification to the next account.
C17_BestEffortNotify ==
  [][\A c \in Calls :
       LET p == call[c]
           q == call'[c]
       IN (p.pc \in {"notifyNew", "notifyResult", "sysNotify"} /\ q # p)
          => /\ q.pc \notin {"threw", "sysNotify"}
             /\ UNCHANGED <<dbVars, analyses, Analysis>>
             /\ p.pc = "notifyNew"
                => /\ q.pc = "analyze" /\ q.j = p.j /\ q.k = p.k
                   /\ q.newTweets = p.newTweets
             /\ (p.pc = "notifyResult" /\ p.j < Len(p.newTweets))
                => q.pc = "notifyNew" /\ q.j = p.j + 1 /\ q.k = p.k
             /\ (p.pc = "sysNotify" \/ (p.pc = "notifyResult" /\ p.j = Len(p.newTweets)))
                => IF p.k < Len(p.accounts)
                   THEN q.pc = "fetch" /\ q.k = p.k + 1
                   ELSE q.pc = "returned" /\ ~isMonitoring']_vars

\* The new-tweet notification of a tweet failed, and the tweet has been
\* analysed, its analysis persisted and its result notification delivered.
C17_Witness ==
  \E id \in PostIds :
    /\ faults > 0
    /\ <<"notifyNew", id>> \notin Range(notifications)
    /\ id \in Range(analyses)
    /\ <<"notifyResult", id>> \in Range(notifications)

\* This step starts exactly one monitorAllAccounts cycle and leaves the
\* cycles in flight as they are.
OneCycleStarted ==
  \E c \in Cycles :
    /\ cycle[c].pc = "idle"
    /\ cycle'[c].pc = "load"
    /\ \A d \in Cycles \ {c} : cycle'[d] = cycle[d]

\* This step starts no monitorAllAccounts cycle.
NoCycleStarted ==
  \A c \in Cycles : cycle[c].pc = "idle" => cycle'[c].pc = "idle"

\* C18: scheduler start. The step that takes the scheduler from stopped to
\* running installs the cron job and starts exactly one cycle in the same
\* step, before any tick.
C18_StartFiresOnce ==
  [][(~isRunning /\ isRunning')
     => /\ cronJob'
        /\ OneCycleStarted
        /\ UNCHANGED <<task, dbVars, lastTrigger>>]_vars

\* The scheduler is running with its job installed and the cycle fired by
\* start() is the only one so far: it awaits the account list and no cycle
\* has ended yet.
C18_Witness ==
  /\ isRunning /\ cronJob
  /\ report = NoReport
  /\ lastTrigger = "none"
  /\ Cardinality({c \in Cycles : cycle[c].pc = "load"}) = 1
  /\ Cardinality({c \in Cycles : CycleActive(c)}) = 1

\* C19: scheduler stop. stop() removes the cron job and touches no cycle in
\* flight: their runs, the stored tweets and the cursors stay as they are;
\* while the scheduler is stopped no step starts a cycle; and whether the
\* scheduler runs or not, every cycle and every monitorAccount run in flight
\* can take its next step.
C19_StopKeepsCycle ==
  /\ [][(isRunning /\ ~isRunning')
        => /\ ~cronJob'
           /\ UNCHANGED <<cycle, task, report, dbVars>>]_vars
  /\ [][(~isRunning /\ ~isRunning') => NoCycleStarted]_vars
  /\ [](~isRunning => ~cronJob)
  /\ [](\A c \in Cycles :
          /\ cycle[c].pc = "load" => ENABLED LoadAccounts(c)
          /\ \A a \in AccountNames :
               /\ task[c][a].pc = "fetch" => ENABLED FetchTweets(c, a)
               /\ task[c][a].pc = "query" => ENABLED SaveTweetQuery(c, a)
               /\ task[c][a].pc = "insert" => ENABLED SaveTweetInsert(c, a)
               /\ task[c][a].pc = "update" => ENABLED updateLastTweetId(c, a))

\* The scheduler has been stopped and a monitorAccount run of a cycle is in
\* flight, past its fetch.
C19_Witness ==
  /\ ~isRunning /\ ~cronJob
  /\ \E c \in Cycles, a \in AccountNames :
       task[c][a].pc \in {"query", "insert", "update"}

\* C20: manual trigger. triggerMonitor() on a scheduler that is not running
\* throws and leaves the cycles, the runs and the stored data as they are;
\* on a running scheduler it starts exactly one cycle.
C20_ManualTrigger ==
  [][lastTrigger' # lastTrigger
     => IF isRunning
        THEN /\ lastTrigger' = "ran"
             /\ OneCycleStarted
             /\ UNCHANGED <<isRunning, cronJob, task, dbVars>>
        ELSE /\ lastTrigger' = "threw"
             /\ UNCHANGED <<isRunning, cronJob, cycle, task, report, dbVars>>]_vars

\* triggerMonitor() has thrown on a scheduler that was started, ran a
\* cycle and was stopped again.
C20_Witness ==
  /\ lastTrigger = "threw"
  /\ ~isRunning
  /\ report.outcome = "done"
  /\ \A c \in Cycles : ~CycleActive(c)

\* C21: scheduler status. In every state reached by start(), stop() and
\* triggerMonitor() calls, getStatus() returns a status whose running flag is
\* the scheduler's state and whose next fire time is a date exactly when the
\* scheduler is running and null when it is stopped, whichever task object
\* the cron library hands out.
C21_StatusMatchesState ==
  \A hasNextDate \in BOOLEAN :
    LET s == getStatus(hasNextDate)
    IN /\ ~s.threw
       /\ s.isRunning = isRunning
       /\ (s.nextRun = "date") = isRunning
       /\ (s.nextRun = "null") = ~isRunning

\* Notifications of one kind in the log.
Sent(kind) == SelectSeq(notifications, LAMBDA n : n[1] = kind)

\* The effects the scenario expects of account x and of account y.
ScenarioEffects ==
  /\ Range(tweets) = {100, 101, 103, 104}
  /\ last_tweet_id["x"] = 104
  /\ Range(Sent("notifyNew")) = {<<"notifyNew", id>> : id \in {101, 103, 104}}
  /\ Len(Sent("notifyNew")) = 3
  /\ Range(Sent("notifyResult")) = {<<"notifyResult", id>> : id \in {101, 103, 104}}
  /\ Len(Sent("notifyResult")) = 3
  /\ Range(analyses) = {101, 103, 104}
  /\ Len(analyses) = 3
  /\ last_tweet_id["y"] = NULL
  /\ \A id \in Range(tweets) : Owner(id) # "y"

\* The first call of the scenario has come to the catch of account y, whose
\* fetch failed, and no other collaborator has failed.
ScenarioFetchOfYFailed ==
  /\ call[1].pc = "sysNotify" /\ call[1].err = "fetch"
  /\ call[1].accounts[call[1].k] = "y"
  /\ call[2].pc = "idle"
  /\ faults = 1

\* The first call of the scenario has returned after that failure: its one
\* fault led to a catch, all of x was analysed and y got no notification.
ScenarioReturned ==
  /\ call[1].pc = "returned" /\ call[2].pc = "idle"
  /\ faults = 1
  /\ Len(Sent("sysNotify")) = 1
  /\ Range(analyses) = {101, 103, 104}
  /\ <<"notifyNew", 102>> \notin Range(notifications)

\* C22: end-to-end cycle with one failing account. In the cycle over x
\* (cursor 100, three new tweets) and y (fetch fails), the three tweets of x
\* are stored, the cursor of x is the newest of them, x has three new-tweet
\* notifications, three result notifications and three analysis records,
\* nothing of y is stored and its cursor is unchanged; and the cycle hands
\* its caller a report with one account processed, one failed and three
\* posts processed.
C22_EndToEndScenario ==
  /\ ScenarioFetchOfYFailed => ScenarioEffects
  /\ ScenarioReturned =>
       /\ ScenarioEffects
       /\ startMonitoringAndAnalysisReturn(call[1]) =
            [defined |-> TRUE, accountsProcessed |-> 1, accountsFailed |-> 1,
             postsProcessed |-> 3]

\* C23: cycle errors are contained. Whatever collaborator fails during a
\* cycle, no invocation of startMonitoringAndAnalysis ends by raising to its
\* caller.
C23_ErrorsContained ==
  \A c \in Calls : call[c].pc # "threw"

\* C24: a cycle always completes. When every collaborator call eventually
\* returns, every invocation of startMonitoringAndAnalysis that is past the
\* guard eventually ends, and a guard that is set is eventually cleared, so
\* that a later trigger can start a cycle again.
C24_CycleCompletes ==
  /\ \A c \in Calls : CallActive(c) ~> CallEnded(call[c])
  /\ isMonitoring ~> ~isMonitoring

\* The counts of a cycle that ends in this step over the accounts it loaded:
\* every loaded account is counted once, as fulfilled or as rejected, and
\* the runs that had settled before are counted as they settled.
CountsMatch(c) ==
  LET loaded == Range(cycle[c].loaded)
  IN /\ report'.outcome = "done"
     /\ report'.fulfilled \cup report'.rejected = loaded
     /\ report'.fulfilled \cap report'.rejected = {}
     /\ Cardinality(report'.fulfilled) + Cardinality(report'.rejected)
          = Len(cycle[c].loaded)
     /\ {a \in loaded : task[c][a].pc = "rejected"} \subseteq report'.rejected
     /\ {a \in loaded : task[c][a].pc = "fulfilled"} \subseteq report'.fulfilled

\* C25: cycle report counts. When a cycle over n loaded accounts ends, the
\* accounts counted as processed and as failed add up to n, the failed ones
\* are those whose monitorAccount run was rejected, and the counts are handed
\* to the caller as the cycle report.
C25_CycleReport ==
  [][\A c \in Cycles :
       (cycle[c].pc = "run" /\ cycle'[c].pc = "idle")
       => /\ CountsMatch(c)
          /\ monitorAllAccountsReturn(report') =
               [defined |-> TRUE,
                successCount |-> Cardinality(report'.fulfilled),
                errorCount |-> Cardinality(report'.rejected)]]_vars

\* The keys that a sub-analysis sets in the result.
KeysOf(which) ==
  IF which = "sentiment" THEN {"sentiment", "sentimentReason"} ELSE {which}

\* C26: analysis join. analyzeContent starts its three sub-analyses together
\* and returns only when none is pending; while it waits, each sub-analysis
\* that has settled has set its keys, and when it returns the result has a
\* value for sentiment, sentimentReason, keywords and summary, in whatever
\* order the three replied or failed.
C26_AnalysisJoin ==
  /\ [][\A j \in Jobs :
          (job[j].pc = "lookup" /\ job'[j].pc = "backend")
          => job'[j].pending = SubAnalyses]_vars
  /\ [](\A j \in Jobs :
          /\ job[j].pc = "backend"
               => /\ job[j].pending # {}
                  /\ \A w \in SubAnalyses \ job[j].pending :
                       KeysOf(w) \subseteq job[j].result.has
          /\ job[j].pc = "save"
               => /\ job[j].pending = {}
                  /\ job[j].result.has = ResultKeys)

\* The accounts whose fetch invocation c of startMonitoringAndAnalysis has
\* started and not yet seen return.
FetchesInFlight(c) ==
  IF call[c].pc = "fetch" THEN {call[c].accounts[call[c].k]} ELSE {}

\* C27: concurrent account fan-out. When a cycle has loaded its accounts, the
\* fetch of every loaded account is started in that same step, none waiting
\* for the fetch of another to return.
C27_ConcurrentFanOut ==
  [][\A c \in Calls :
       (call[c].pc = "load" /\ call'[c].pc = "fetch")
       => FetchesInFlight(c)' = Range(call'[c].accounts)]_vars

\* C28: cursor frame across accounts. Every write of the cursor of an
\* account is the cursor update of a monitorAccount run of that same account,
\* stores the id that run has chosen, and leaves the cursor of every other
\* account as it was, whatever the runs of the other accounts are doing.
C28_CursorFrame ==
  [][\A a \in AccountNames :
       last_tweet_id'[a] # last_tweet_id[a]
       => /\ \E c \in Cycles :
               /\ task[c][a].pc = "update"
               /\ task'[c][a].pc # "update"
               /\ last_tweet_id'[a] = task[c][a].latestTweetId
          /\ \A b \in AccountNames \ {a} :
               last_tweet_id'[b] = last_tweet_id[b]]_vars

\* The run of x has written the cursor of x while the run of y in the same
\* cycle is still in flight, and the cursor of y is as it was.
C28_Witness ==
  \E c \in Cycles :
    /\ cycle[c].pc = "run"
    /\ task[c]["x"].pc = "fulfilled"
    /\ last_tweet_id["x"] # NULL
    /\ Running(task[c]["y"])
    /\ last_tweet_id["y"] = NULL

\* C29: cursor unchanged without a new post. A monitorAccount run comes to
\* its cursor update only after it has persisted at least one tweet, and with
\* one of the tweets it persisted as the new cursor; and every step that
\* changes the cursor of an account is the update of such a run. A run whose
\* fetch failed or returned nothing, whose tweets were all stored already or
\* whose writes all failed therefore leaves the cursor as it was.
C29_CursorNeedsNewPost ==
  /\ [](\A c \in Cycles, a \in AccountNames :
          task[c][a].pc = "update"
          => /\ task[c][a].saved # <<>>
             /\ Range(task[c][a].saved) \subseteq Range(tweets)
             /\ task[c][a].latestTweetId \in Range(task[c][a].saved))
  /\ [][\A a \in AccountNames :
          last_tweet_id'[a] # last_tweet_id[a]
          => \E c \in Cycles :
               /\ task[c][a].pc = "update"
               /\ task[c][a].saved # <<>>]_vars

\* A cycle has ended with the run of x fulfilled and the cursor of x still
\* unset although a tweet of x is stored: the run fetched only tweets that
\* were in storage already and wrote no cursor.
C29_Witness ==
  /\ \A c \in Cycles : ~CycleActive(c)
  /\ report.outcome = "done"
  /\ "x" \in report.fulfilled
  /\ last_tweet_id["x"] = NULL
  /\ \E id \in Range(tweets) : Owner(id) = "x"

\* C30: stored posts are immutable. Every row of the tweets table stays
\* where it is, with the id and the content it was stored with, whatever
\* is saved later under the same id: the table only grows at its end.
C30_StoredPostsImmutable ==
  [][/\ Len(tweets') >= Len(tweets)
     /\ \A k \in 1..Len(tweets) :
          /\ tweets'[k] = tweets[k]
          /\ raw_data'[k] = raw_data[k]]_vars

\* The accounts that have a row with is_active = 1.
ActiveAccounts == {a \in Range(monitored_accounts) : is_active[a]}

\* C31: only active accounts are monitored. The step in which a cycle loads
\* the account list starts a monitorAccount run for exactly the accounts that
\* are present and active at that step (none when there is none); a run
\* exists only for an account of the loaded list; and a cursor is written
\* only by the run of an account that the cycle loaded. So an account
\* deactivated or removed before the load is neither fetched nor has its
\* cursor written by that cycle.
C31_OnlyActiveMonitored ==
  /\ [][\A c \in Cycles :
          /\ (cycle[c].pc = "load" /\ cycle'[c].pc = "run")
             => /\ Range(cycle'[c].loaded) = ActiveAccounts
                /\ \A a \in AccountNames :
                     Running(task'[c][a]) <=> a \in ActiveAccounts
          /\ (cycle[c].pc = "load" /\ cycle'[c].pc = "idle")
             => /\ ActiveAccounts = {}
                /\ task'[c] = task[c]]_vars
  /\ [](\A c \in Cycles, a \in AccountNames :
          Running(task[c][a])
          => cycle[c].pc = "run" /\ a \in Range(cycle[c].loaded))
  /\ [][\A a \in AccountNames :
          (last_tweet_id'[a] # last_tweet_id[a] /\ last_tweet_id'[a] # NULL)
          => \E c \in Cycles : /\ cycle[c].pc = "run"
                               /\ a \in Range(cycle[c].loaded)
                               /\ task[c][a].pc = "update"]_vars

\* A cycle loaded only x because y had been deactivated before the load; it
\* fetched and stored posts of x and is about to write the cursor of x, while
\* y has no run and no cursor.
C31_Witness ==
  \E c \in Cycles :
    /\ cycle[c].pc = "run" /\ cycle[c].loaded = <<"x">>
    /\ task[c]["x"].pc = "update"
    /\ task[c]["y"].pc = "none"
    /\ "y" \in Range(monitored_accounts) /\ ~is_active["y"]
    /\ task[c]["x"].latestTweetId # NULL
    /\ last_tweet_id["y"] = NULL

\* C33: scheduler state. isRunning is true exactly when a cron job is
\* installed, and at most one cron task is alive: one when a job is
\* installed and none otherwise. A start() on a running scheduler logs its
\* warning and changes nothing else: no second timer, no extra cycle. A
\* stop() on a stopped scheduler logs its message and changes nothing else.
C33_SchedulerState ==
  /\ [](isRunning <=> cronJob)
  /\ [](timers = IF cronJob THEN 1 ELSE 0)
  /\ [][startAgain
        => UNCHANGED <<isRunning, cronJob, timers, lastTrigger, cycle, task,
                       report, dbVars>>]_vars
  /\ [][(isRunning /\ lastLog' = "already running" /\ lastLog' # lastLog)
        => UNCHANGED <<isRunning, cronJob, timers, lastTrigger, cycle, task,
                       report, dbVars>>]_vars
  /\ [][((~isRunning /\ stop)
         \/ (~isRunning /\ lastLog' = "stopped" /\ lastLog' # lastLog))
        => UNCHANGED <<isRunning, cronJob, timers, lastTrigger, cycle, task,
                       report, dbVars>>]_vars

\* start() has been called on the running scheduler: the warning is the last
\* message, one job is installed, and the cycle that the first start() fired
\* is still the only one, waiting for its account list.
C33_Witness ==
  /\ lastLog = "already running"
  /\ isRunning /\ cronJob /\ timers = 1
  /\ report = NoReport
  /\ lastTrigger = "none"
  /\ Cardinality({c \in Cycles : cycle[c].pc = "load"}) = 1
  /\ Cardinality({c \in Cycles : CycleActive(c)}) = 1

\* The monitorAccount runs of cycle c that have not settled.
RunningTasks(c) == {a \in AccountNames : Running(task[c][a])}

\* C34: wait for all account tasks. While a monitorAccount run that a cycle
\* started has not settled, the cycle has not completed; the step that
\* completes a cycle and logs its counts is the step that settles the last
\* run still running, and the counts cover every loaded account.
C34_WaitForAllTasks ==
  /\ [](\A c \in Cycles : RunningTasks(c) # {} => cycle[c].pc = "run")
  /\ [][\A c \in Cycles :
          (cycle[c].pc = "run" /\ cycle'[c].pc = "idle")
          => /\ Cardinality(RunningTasks(c)) <= 1
             /\ \A a \in Range(cycle[c].loaded) :
                  Settled(task[c][a]) \/ RunningTasks(c) = {a}
             /\ report'.outcome = "done"
             /\ report'.fulfilled \cup report'.rejected = Range(cycle[c].loaded)]_vars
  /\ [][(report' # report /\ report'.outcome = "done")
        => \E c \in Cycles : /\ cycle[c].pc = "run" /\ cycle'[c].pc = "idle"
                             /\ Cardinality(RunningTasks(c)) <= 1]_vars

\* The run of x has settled and the run of y of the same cycle is still
\* running: the cycle is waiting and has logged nothing.
C34_Witness ==
  \E c \in Cycles :
    /\ cycle[c].pc = "run" /\ cycle[c].loaded = <<"x", "y">>
    /\ task[c]["x"].pc \in {"fulfilled", "rejected"}
    /\ Running(task[c]["y"])
    /\ report = NoReport

\* C35: no post is lost behind the cursor. When a monitorAccount run writes
\* the cursor of its account, every post that its fetch returned with an id
\* up to the written cursor is in storage, so no post whose write failed is
\* left behind a cursor that a newer post advanced.
C35_NoPostLostBehindCursor ==
  [][\A c \in Cycles, a \in AccountNames :
       (task[c][a].pc = "update" /\ last_tweet_id'[a] # last_tweet_id[a])
       => \A k \in 1..Len(task[c][a].tweets) :
            LET id == task[c][a].tweets[k]
            IN (id = last_tweet_id'[a] \/ IdLess(id, last_tweet_id'[a]))
               => id \in Range(tweets')]_vars

\* C36: cursor-update failure. When the cursor update of a monitorAccount run
\* fails, the run is settled as rejected and is counted in the failure count
\* of its cycle, the stored posts (those of the run among them) stay in
\* storage, and the cursors keep their values. No step removes a stored post.
C36_CursorUpdateFailure ==
  /\ [][\A c \in Cycles, a \in AccountNames :
          (task[c][a].pc = "update" /\ faults' # faults
             /\ task'[c][a] # task[c][a])
          => /\ RunRejected(c, a)
             /\ UNCHANGED <<tweets, raw_data, last_tweet_id>>
             /\ \A k \in 1..Len(task[c][a].saved) :
                  task[c][a].saved[k] \in Range(tweets')]_vars
  /\ [][\A c \in Cycles, a \in AccountNames :
          (task[c][a].pc = "rejected" /\ cycle'[c].pc = "idle")
          => a \in report'.rejected /\ report'.outcome = "done"]_vars
  /\ [][Range(tweets) \subseteq Range(tweets')]_vars

\* Every cycle has ended; the last one counted x as failed; a post of x is
\* in storage and x has no cursor: the cursor update of the run that stored
\* the post failed.
C36_Witness ==
  /\ \A c \in Cycles : cycle[c].pc = "idle"
  /\ "x" \in report.rejected
  /\ faults = 1
  /\ last_tweet_id["x"] = NULL
  /\ \E k \in 1..Len(tweets) : Owner(tweets[k]) = "x"

\* C32: notification priority domain. Every notification posted by
\* sendNewTweetNotification, sendAnalysisResultNotification or
\* sendSystemNotification has a priority among default, high and urgent:
\* default for a new post, high for an analysis result, urgent for the
\* system type 'error', high for 'warning', default for every other type.
C32_PriorityDomain ==
  \A k \in 1..Len(ntfy.posted) :
    LET m == ntfy.posted[k]
    IN /\ m.priority \in {"default", "high", "urgent"}
       /\ m.from[1] = "sendNewTweetNotification" => m.priority = "default"
       /\ m.from[1] = "sendAnalysisResultNotification" => m.priority = "high"
       /\ m.from[1] = "sendSystemNotification"
          => m.priority = IF m.from[2] = "error" THEN "urgent"
                          ELSE IF m.from[2] = "warning" THEN "high"
                          ELSE "default"

\* A system notification of a type that the switch does not know has been
\* posted after one of type 'error'.
C32_Witness ==
  /\ Len(ntfy.posted) = 2
  /\ ntfy.posted[1].from = <<"sendSystemNotification", "error">>
  /\ ntfy.posted[1].priority = "urgent"
  /\ ntfy.posted[2].from = <<"sendSystemNotification", "debug">>
  /\ ntfy.posted[2].priority = "default"

\* An analyzeTweets invocation that holds isAnalyzing.
BatchActive(b) == batch[b].pc \in {"analyze", "delay"}

\* C37: batch-analysis guard. An analyzeTweets call made while a batch is
\* running ends at once with an empty list and starts no analysis; at most
\* one batch is running; and isAnalyzing is set exactly while a batch is
\* running, so it is clear once the batch that set it has returned or
\* thrown, and the next call is not skipped.
C37_BatchGuard ==
  /\ [](Cardinality({b \in Batches : BatchActive(b)}) <= 1)
  /\ [](isAnalyzing <=> \E b \in Batches : BatchActive(b))
  /\ [][\A b \in Batches :
          (batch[b].pc = "idle" /\ batch'[b].pc # "idle")
          => IF \E o \in Batches : BatchActive(o)
             THEN /\ batch'[b].pc = "skipped"
                  /\ batch'[b].results = <<>>
                  /\ UNCHANGED <<isAnalyzing, job, Analysis>>
             ELSE batch'[b].pc # "skipped"]_vars

\* The first call was made without a list and threw; the second one
\* acquired the guard after it, and the third was skipped while the second
\* is analyzing.
C37_Witness ==
  /\ batch[1].pc = "threw"
  /\ batch[2].pc = "analyze"
  /\ batch[3].pc = "skipped"
  /\ isAnalyzing

\* The analyzeTweet invocations of a batch that returned, in call order.
Succeeded(bt) == SelectSeq(bt.jobs, LAMBDA j : job[j].pc = "returned")

\* C38: batch-analysis failure isolation. A failure of analyzeTweet on one
\* tweet does not end the batch: the loop goes on to the next tweet, or
\* returns when it was the last. A batch that has returned has called
\* analyzeTweet once for every tweet of its input, in input order, and its
\* result is the list of the analyses that these calls returned, in that
\* order.
C38_BatchIsolation ==
  /\ [][\A b \in Batches :
          (batch[b].pc = "analyze" /\ job[CurrentJob(batch[b])].pc = "threw"
             /\ batch'[b] # batch[b])
          => /\ batch'[b].i = batch[b].i + 1
             /\ batch'[b].results = batch[b].results
             /\ batch'[b].pc = IF batch[b].i < Len(batch[b].tweets)
                               THEN "analyze" ELSE "returned"]_vars
  /\ [](\A b \in Batches :
          batch[b].pc = "returned"
          => LET bt == batch[b]
                 ok == Succeeded(bt)
             IN /\ Len(bt.jobs) = Len(bt.tweets)
                /\ \A k \in 1..Len(bt.jobs) : job[bt.jobs[k]].tweet = bt.tweets[k]
                /\ \A k \in 1..Len(bt.jobs) :
                     job[bt.jobs[k]].pc \in {"returned", "threw"}
                /\ bt.results = [k \in 1..Len(ok) |-> job[ok[k]].ret])

\* A batch of two tweets has returned: the analysis of the first one threw
\* and the result holds the analysis of the second one alone.
C38_Witness ==
  \E b \in Batches :
    /\ batch[b].pc = "returned"
    /\ Len(batch[b].tweets) = 2
    /\ job[batch[b].jobs[1]].pc = "threw"
    /\ job[batch[b].jobs[2]].pc = "returned"
    /\ batch[b].results = <<job[batch[b].jobs[2]].ret>>

\* C39: unique monitored accounts. An addAccount call whose username is in
\* the list when its check reads it throws, without a platform lookup and
\* without a change to the table; a call that threw at its check or at its
\* lookup has inserted nothing; and the list never holds two records with
\* one username.
C39_UniqueAccounts ==
  /\ [][\A p \in Adds :
          (add[p].pc = "check" /\ add'[p] # add[p])
          => IF add[p].username \in Range(monitored_accounts)
             THEN /\ add'[p].pc = "threw"
                  /\ add'[p].userInfo = ""
                  /\ UNCHANGED dbVars
             ELSE add'[p].pc = "lookup" /\ UNCHANGED dbVars]_vars
  /\ [][monitored_accounts' # monitored_accounts
        => \/ \E p \in Adds : /\ add[p].pc = "insert"
                               /\ add'[p].pc = "returned"
                               /\ add[p].userInfo \notin Range(monitored_accounts)
           \/ Range(monitored_accounts') \subseteq Range(monitored_accounts)]_vars
  /\ [](\A i, j \in 1..Len(monitored_accounts) :
          monitored_accounts[i] = monitored_accounts[j] => i = j)

\* Account x was removed and added again by one call, and a later call to
\* add x was refused at its check; another username is in the list as well.
C39_Witness ==
  \E p, q \in Adds :
    /\ add[q].pc = "returned" /\ add[q].userInfo = "x"
    /\ add[p].pc = "threw" /\ add[p].err = "exists" /\ add[p].username = "x"
    /\ Range(monitored_accounts) = {"x", "y"}

====
